---- MODULE Spec2Model ----
(***************************************************************************)
(* A model of the Google Drive -> Qdrant sync pipeline:                    *)
(*   embedding_generator.py  EmbeddingGenerator                            *)
(*   qdrant_manager.py       QdrantManager                                 *)
(*   main.py                 process_collection, main                      *)
(*                                                                         *)
(* Texts are sequences of characters over a small alphabet, "SP" standing  *)
(* for a blank and "NL" for a line feed.  A vector is represented by its   *)
(* kind (the all-zero placeholder or a vector delivered by the embedding   *)
(* service), its number of components and the text it embeds.              *)
(***************************************************************************)
EXTENDS Integers, Sequences, FiniteSets, TLC

(***************************************************************************)
(* Bounds of the model.                                                    *)
(***************************************************************************)
\* batch_size of generate_embeddings_batch (a parameter, default 100),
\* scaled down so that a call spans several batches.
EmbedBatchSize == 2
\* Longest list of texts (chunks) handed to the embedding generator.
MaxTexts == 3
\* batch_size of _delete_all_points_by_scroll (1000 in the code), scaled down
\* so that a clear spans several pages.
ScrollLimit == 2
\* batch_size of upsert_chunks (a parameter, default 100), scaled down.
UpsertBatchSize == 2
\* Most points a store collection holds before the run.
MaxOldPoints == 3
\* Longest list of chunks handed to upsert_chunks on its own.
MaxUpsertChunks == 3
\* The number of folders of the drive.
MaxFolders == 3
\* pageSize of files().list (1000 in the code), scaled.
PageSize == 2
\* The number of lines of a document and of chunks made of it.
MaxLines == 3
MaxDocChunks == 3

(***************************************************************************)
(* Program constants.                                                      *)
(***************************************************************************)
\* The vector dimension the code hard-wires everywhere.
Dim == 1536
\* EmbeddingGenerator.max_retries and .retry_delay
MaxRetries == 3
RetryDelay == 1

Min(a, b) == IF a < b THEN a ELSE b

(***************************************************************************)
(* Texts                                                                   *)
(***************************************************************************)
Whitespace == {"SP", "NL"}

\* The texts the model draws chunk contents from: empty, whitespace-only
\* (blank, line feed, both), plain, and texts with whitespace around or inside.
Texts ==
  { <<>>, <<"NL", "SP">>, <<"a">>, <<"b">>, <<"SP", "a", "NL">>,
    <<"a", "NL", "b">> }

\* text.replace('\n', ' ')
ReplaceNL(t) == [k \in 1..Len(t) |-> IF t[k] = "NL" THEN "SP" ELSE t[k]]

RECURSIVE LStrip(_)
LStrip(t) ==
  IF t # <<>> /\ Head(t) \in Whitespace THEN LStrip(Tail(t)) ELSE t

RECURSIVE RStrip(_)
RStrip(t) ==
  IF t # <<>> /\ t[Len(t)] \in Whitespace
  THEN RStrip(SubSeq(t, 1, Len(t) - 1))
  ELSE t

\* str.strip()
Strip(t) == RStrip(LStrip(t))

\* A cleaning that forgets to strip.
CleanText_NoStrip(t) == ReplaceNL(t)

\* text.replace('\n', ' ').strip()
CleanText(t) == Strip(ReplaceNL(t))

(***************************************************************************)
(* Vectors                                                                 *)
(***************************************************************************)
\* [0.0] * 1536
ZeroVector == [kind |-> "zero", dim |-> Dim, of |-> <<>>]

\* [[0.0] * 1536] * n
ZeroVectors(n) == [k \in 1..n |-> ZeroVector]

\* A vector of d components delivered by the embedding service for text t.
ServiceVector(t, d) == [kind |-> "real", dim |-> d, of |-> t]

\* Dimensions the service may deliver: the expected one and wrong ones.
ServiceDims == {Dim, Dim - 1, 0}

(***************************************************************************)
(* The embedding service (OpenAI embeddings.create), seen from the caller. *)
(* A response is an exception or the list response.data.                   *)
(***************************************************************************)
ServiceError == [exc |-> TRUE, data |-> <<>>]

\* One embedding per input, in input order.
FullData(inputs) == [k \in 1..Len(inputs) |-> ServiceVector(inputs[k], Dim)]

\* How the service may answer a batched call: with an exception, a
\* well-formed response, a response one item short.
Dispositions == {"error", "full", "short"}

BatchResponse(inputs, disp) ==
  CASE disp = "error" -> ServiceError
    [] disp = "full"  -> [exc |-> FALSE, data |-> FullData(inputs)]
    [] disp = "short" ->
         [exc |-> FALSE, data |-> SubSeq(FullData(inputs), 1, Len(inputs) - 1)]

\* What a single-text call may bring back: an exception, an empty data list,
\* or one embedding of some dimension.
SingleResponses(input) ==
  { ServiceError, [exc |-> FALSE, data |-> <<>>] }
  \cup { [exc |-> FALSE, data |-> <<ServiceVector(input, d)>>] : d \in ServiceDims }

(***************************************************************************)
(* embedding_generator.py                                                  *)
(***************************************************************************)
\* The names bound in the module's global namespace by its imports and
\* definitions (`from openai import OpenAI` binds OpenAI only).
EmbeddingModuleNames ==
  { "logging", "time", "List", "Dict", "Any", "Optional", "OpenAI",
    "Config", "CollectionConfig", "logger", "EmbeddingGenerator" }

\* Evaluating a global name that is not bound raises NameError.
NameBound(n) == n \in EmbeddingModuleNames

\* cleaned_batch = [text.replace('\n', ' ').strip() for text in batch]
CleanedBatch(batch) == [k \in 1..Len(batch) |-> CleanText(batch[k])]

\* valid_texts: the non-empty cleaned texts, in order
ValidTexts(cleaned) == SelectSeq(cleaned, LAMBDA t : t # <<>>)

\* empty_indices (1-based here)
EmptyIndices(cleaned) == {k \in 1..Len(cleaned) : cleaned[k] = <<>>}

\* valid_idx when the merge loop is at position idx (1-based here): one more
\* than the number of non-empty texts before it.
ValidIdx(cleaned, idx) ==
  Cardinality({k \in 1..(idx - 1) : k \notin EmptyIndices(cleaned)}) + 1

\* The merge loop: a zero vector at each empty position, the next service
\* vector at every other one.  batch_embeddings[valid_idx] raises IndexError
\* when the response holds too few items.
MergeRaises(cleaned, batch_embeddings) ==
  \E idx \in 1..Len(cleaned) :
     /\ idx \notin EmptyIndices(cleaned)
     /\ ValidIdx(cleaned, idx) > Len(batch_embeddings)

FinalBatchEmbeddings(cleaned, batch_embeddings) ==
  [idx \in 1..Len(cleaned) |->
     IF idx \in EmptyIndices(cleaned)
     THEN ZeroVector
     ELSE batch_embeddings[ValidIdx(cleaned, idx)]]

\* A wait of retry_delay before every retry.
BackoffDelay_Constant(attempt) == RetryDelay

\* The wait before the next attempt: retry_delay * (attempt + 1)
BackoffDelay(attempt) == RetryDelay * (attempt + 1)

\* A zero fill of batch_size vectors, whatever the length of the batch.
ExhaustedBatch_FullSize(batch) ==
  [raise |-> FALSE, add |-> ZeroVectors(EmbedBatchSize)]

\* Re-raising after the last attempt, as generate_embedding does.
ExhaustedBatch_Raise(batch) == [raise |-> TRUE, add |-> <<>>]

\* What the batch loop does once the last attempt of a batch has failed:
\* it appends one zero vector per text of the batch and does not raise.
ExhaustedBatch(batch) == [raise |-> FALSE, add |-> ZeroVectors(Len(batch))]

\* The body of the try block for one attempt on `batch`, given the response
\* `resp` the service would give if it is called.
\*   sent:  the list of texts sent to the service, <<>> when no call is made
\*   ok:    the body ran to its end (embeddings.extend, break)
\*   add:   final_batch_embeddings
BatchTry(batch, resp) ==
  LET cleaned == CleanedBatch(batch)
      valid   == ValidTexts(cleaned)
  IN  IF valid = <<>>
      THEN [ok |-> TRUE, called |-> FALSE, sent |-> <<>>,
            add |-> FinalBatchEmbeddings(cleaned, <<>>)]
      ELSE IF ~NameBound("openai")
      THEN \* `openai.embeddings.create`: NameError before any call is made
           [ok |-> FALSE, called |-> FALSE, sent |-> <<>>, add |-> <<>>]
      ELSE IF resp.exc \/ MergeRaises(cleaned, resp.data)
      THEN [ok |-> FALSE, called |-> TRUE, sent |-> valid, add |-> <<>>]
      ELSE [ok |-> TRUE, called |-> TRUE, sent |-> valid,
            add |-> FinalBatchEmbeddings(cleaned, resp.data)]

\* A zip that leaves out the chunks whose content is empty.
ZipChunks_SkipEmpty(cs, es) ==
  LET kept == SelectSeq(cs, LAMBDA c : c.content # <<>>) IN
  [k \in 1..Min(Len(kept), Len(es)) |->
     [content |-> kept[k].content, metadata |-> kept[k].metadata,
      embedding |-> es[k]]]

\* for chunk, embedding in zip(chunks, embeddings): the pairs up to the
\* shorter of the two lists
ZipChunks(cs, es) ==
  [k \in 1..Min(Len(cs), Len(es)) |->
     [content |-> cs[k].content, metadata |-> cs[k].metadata,
      embedding |-> es[k]]]

(***************************************************************************)
(* State                                                                   *)
(***************************************************************************)
VARIABLES
  chunks,        \* add_embeddings_to_chunks: its argument
  texts,         \* generate_embeddings_batch: its argument
  bi,            \* generate_embeddings_batch: i, the start of the batch
  attempt,       \* the attempt counter of the retry loop in progress
  embeddings,    \* generate_embeddings_batch: the accumulator
  epc,           \* where the embedding generator is
  enhanced,      \* add_embeddings_to_chunks: enhanced_chunks, once returned
  single,        \* generate_embedding: its argument and its result
  remote_calls,  \* every call that reached the embedding service
  sleeps,        \* every time.sleep of the embedding generator
  plan,          \* how the service is disposed to answer, per attempt of
                 \* the batch in progress (or just finished); for
                 \* generate_embedding, the kind of each response it got
  batch_log      \* per finished batch: its start, attempts and outcome

embed_vars ==
  <<chunks, texts, bi, attempt, embeddings, epc, enhanced, single,
    remote_calls, sleeps, plan, batch_log>>

VARIABLES
  store,          \* the vector store: per collection name, whether it exists,
                  \* its vector size and its points
  next_id,        \* the source of fresh point ids (uuid.uuid4)
  store_calls,    \* every call made to the store by the manager in use
  qcoll,          \* QdrantManager.collection_name
  qpc,            \* where the QdrantManager is
  offset,         \* _delete_all_points_by_scroll: offset
  total_deleted,  \* _delete_all_points_by_scroll: total_deleted
  pre_clear,      \* <<the points at the last call of clear_collection>>
  clear_outcomes, \* whether each scroll/delete call of the last clear answered
  uchunks,        \* upsert_chunks: its argument
  ui,             \* upsert_chunks: i, the start of the batch
  total_upserted, \* upsert_chunks: total_upserted
  verify_result   \* _verify_upsert: what it found

store_vars ==
  <<store, next_id, store_calls, qcoll, qpc, offset, total_deleted,
    pre_clear, clear_outcomes, uchunks, ui, total_upserted, verify_result>>

VARIABLES
  mpc,            \* main: where it is
  ci,             \* main: the index of the collection being processed
  results,        \* main: results
  successful_collections,
  failed_collections,
  ppc,            \* process_collection: where it is
  files,          \* process_collection: all_processed_files
  documents,      \* process_collection: documents
  all_chunks,     \* process_collection: all_chunks
  verified,       \* whether the run's QdrantManager passed _verify_connection
  download_log,   \* what download_file_content did for each file of the run
  multi_config,   \* main: the configuration found in the environment
  target_collection,        \* main: its argument ("" when there is none)
  collections_to_process,   \* main: collections_to_process
  first_run,      \* what an earlier run of the program left, if there was one
  summary         \* main: the lines its detailed-results loop has logged

VARIABLES
  graph,          \* Google Drive: the subfolders of every folder, in order
  wpc,            \* where the gathering of a root folder's files is
  wstack,         \* the calls of get_all_subfolders in progress
  visited,        \* get_all_subfolders: visited
  list_calls,     \* the folders whose subfolders were listed, in call order
  list_failed,    \* whether a listing call has raised
  wresult,        \* what the outermost get_all_subfolders returned
  gathered,       \* the files gathered for the root folder
  fi,             \* process_collection: the position in collection_config.folders
  all_processed_files,  \* process_collection: all_processed_files
  list_errors,    \* the listing calls for the current root folder that raised
  root_errors     \* per root folder gathered so far: its list_errors

walk_vars ==
  <<graph, wpc, wstack, visited, list_calls, list_failed, wresult, gathered,
    fi, all_processed_files, list_errors, root_errors>>

VARIABLES
  total_lines,    \* process_document: len(lines)
  chunk_lines,    \* the number of lines of every chunk the splitter made
  dpc,            \* where process_document is
  current_line,   \* process_document: current_line
  processed_chunks  \* process_document: the line range of every chunk so far

doc_vars == <<total_lines, chunk_lines, dpc, current_line, processed_chunks>>

VARIABLES
  image_input,    \* _extract_image_content: the file name and what opening the
                  \* image, the OCR and the vision call will do
  xpc,            \* where _extract_image_content is
  image_content   \* _extract_image_content: the text it returned

extract_vars == <<image_input, xpc, image_content>>

\* What no step of process_collection changes.
aux_vars ==
  <<multi_config, target_collection, collections_to_process, first_run,
    summary, walk_vars, doc_vars, extract_vars>>

pipe_vars ==
  <<mpc, ci, results, successful_collections, failed_collections, ppc,
    files, documents, all_chunks, verified, download_log, aux_vars>>

vars == <<embed_vars, store_vars, pipe_vars>>

\* The chunk lists handed to add_embeddings_to_chunks; the metadata of a chunk
\* tells the chunks of a list apart.
ChunkLists ==
  UNION { [1..n -> Texts] : n \in 0..MaxTexts }

MakeChunks(ts) == [k \in 1..Len(ts) |-> [content |-> ts[k], metadata |-> k]]

NoSingle == [text |-> <<>>, result |-> "none", vector |-> ZeroVector]

EmbedIdle ==
  /\ chunks = <<>>
  /\ texts = <<>>
  /\ bi = 0
  /\ attempt = 0
  /\ embeddings = <<>>
  /\ epc = "idle"
  /\ enhanced = <<>>
  /\ single = NoSingle
  /\ remote_calls = <<>>
  /\ sleeps = <<>>
  /\ plan = <<>>
  /\ batch_log = <<>>

(***************************************************************************)
(* EmbeddingGenerator.add_embeddings_to_chunks / generate_embeddings_batch *)
(***************************************************************************)
\* add_embeddings_to_chunks(cs) up to its call of generate_embeddings_batch
CallAddEmbeddings(cs) ==
  /\ epc = "idle"
  /\ chunks' = cs
  /\ texts' = [k \in 1..Len(cs) |-> cs[k].content]
  /\ bi' = 0
  /\ attempt' = 0
  /\ embeddings' = <<>>
  /\ epc' = "batch"
  /\ enhanced' = <<>>
  /\ batch_log' = <<>>
  /\ plan' = <<>>
  /\ UNCHANGED <<single, remote_calls, sleeps>>
  /\ UNCHANGED <<store_vars, pipe_vars>>

CurrentBatch == SubSeq(texts, bi + 1, Min(bi + EmbedBatchSize, Len(texts)))

\* A try block that extends the accumulator vector by vector, so that a
\* failed attempt leaves what it had merged.
FailedAttemptAdds_Partial(batch) == ZeroVectors(1)

\* What an attempt that ends in the except block has appended to the
\* accumulator: nothing, as embeddings.extend is the last statement of the
\* try block before the break and final_batch_embeddings is a local list.
FailedAttemptAdds(batch) == <<>>

\* One attempt of the retry loop on the current batch.
BatchAttempt ==
  /\ epc = "batch"
  /\ bi < Len(texts)
  /\ LET batch == CurrentBatch IN
     \E disp \in Dispositions :
       LET resp == BatchResponse(ValidTexts(CleanedBatch(batch)), disp)
           try  == BatchTry(batch, resp)
           last == ExhaustedBatch(batch)
           made == IF try.called THEN Append(remote_calls, try.sent)
                                 ELSE remote_calls
       IN
         /\ remote_calls' = made
         /\ plan' = IF attempt = 0 THEN <<disp>> ELSE Append(plan, disp)
         /\ IF try.ok
            THEN \* embeddings.extend(final_batch_embeddings); break
                 /\ embeddings' = embeddings \o try.add
                 /\ batch_log' = Append(batch_log,
                      [start |-> bi, attempts |-> attempt + 1, ok |-> TRUE,
                       calls_end |-> Len(made)])
                 /\ bi' = bi + EmbedBatchSize
                 /\ attempt' = 0
                 /\ UNCHANGED <<sleeps, epc>>
            ELSE IF attempt < MaxRetries - 1
            THEN \* time.sleep(self.retry_delay * (attempt + 1))
                 /\ sleeps' = Append(sleeps, BackoffDelay(attempt))
                 /\ attempt' = attempt + 1
                 /\ embeddings' = embeddings \o FailedAttemptAdds(batch)
                 /\ UNCHANGED <<batch_log, bi, epc>>
            ELSE IF last.raise
            THEN /\ epc' = "raised"
                 /\ UNCHANGED <<embeddings, batch_log, bi, attempt, sleeps>>
            ELSE \* embeddings.extend([[0.0] * 1536] * len(batch))
                 /\ embeddings' =
                      embeddings \o FailedAttemptAdds(batch) \o last.add
                 /\ batch_log' = Append(batch_log,
                      [start |-> bi, attempts |-> attempt + 1, ok |-> FALSE,
                       calls_end |-> Len(made)])
                 /\ bi' = bi + EmbedBatchSize
                 /\ attempt' = 0
                 /\ UNCHANGED <<sleeps, epc>>
  /\ UNCHANGED <<chunks, texts, enhanced, single>>
  /\ UNCHANGED <<store_vars, pipe_vars>>

\* The batch loop is over: generate_embeddings_batch returns its accumulator
\* and add_embeddings_to_chunks zips it with the chunks.
ReturnEmbeddings ==
  /\ epc = "batch"
  /\ bi >= Len(texts)
  /\ enhanced' = ZipChunks(chunks, embeddings)
  /\ epc' = "returned"
  /\ plan' = <<>>
  /\ UNCHANGED <<chunks, texts, bi, attempt, embeddings, single,
                 remote_calls, sleeps, batch_log>>
  /\ UNCHANGED <<store_vars, pipe_vars>>

(***************************************************************************)
(* EmbeddingGenerator.generate_embedding                                   *)
(***************************************************************************)
\* A generate_embedding that degrades to the zero vector, as the batch loop
\* does.
ExhaustedSingle_ZeroVector == [raise |-> FALSE, vector |-> ZeroVector]

\* What the last failed attempt of generate_embedding does: it re-raises.
ExhaustedSingle == [raise |-> TRUE, vector |-> ZeroVector]

\* The kind of a response to a single-text call.
ResponseKind(resp) ==
  IF resp.exc THEN "error"
  ELSE IF resp.data = <<>> THEN "empty"
  ELSE IF resp.data[1].dim = Dim THEN "full"
  ELSE "wrong_dimension"

\* The body of the try block of generate_embedding for `text`, given the
\* response `resp` the service would give if it is called.
SingleTry(text, resp) ==
  LET cleaned == CleanText(text) IN
  IF cleaned = <<>>
  THEN [ok |-> TRUE, called |-> FALSE, sent |-> <<>>, vector |-> ZeroVector]
  ELSE IF resp.exc \/ resp.data = <<>>
  THEN [ok |-> FALSE, called |-> TRUE, sent |-> cleaned, vector |-> ZeroVector]
  ELSE IF resp.data[1].dim # Dim
  THEN \* raise ValueError("Embedding dimension mismatch")
       [ok |-> FALSE, called |-> TRUE, sent |-> cleaned, vector |-> ZeroVector]
  ELSE [ok |-> TRUE, called |-> TRUE, sent |-> cleaned, vector |-> resp.data[1]]

CallGenerateEmbedding(t) ==
  /\ epc = "idle"
  /\ single' = [text |-> t, result |-> "pending", vector |-> ZeroVector]
  /\ attempt' = 0
  /\ epc' = "single"
  /\ UNCHANGED <<chunks, texts, bi, embeddings, enhanced, remote_calls,
                 sleeps, plan, batch_log>>
  /\ UNCHANGED <<store_vars, pipe_vars>>

\* One attempt of the retry loop of generate_embedding.
SingleAttempt ==
  /\ epc = "single"
  /\ \E resp \in SingleResponses(CleanText(single.text)) :
       LET try == SingleTry(single.text, resp) IN
         /\ remote_calls' =
              IF try.called THEN Append(remote_calls, <<try.sent>>) ELSE remote_calls
         /\ plan' = IF try.called THEN Append(plan, ResponseKind(resp)) ELSE plan
         /\ IF try.ok
            THEN /\ single' = [single EXCEPT !.result = "returned",
                                              !.vector = try.vector]
                 /\ epc' = "single_returned"
                 /\ UNCHANGED <<attempt, sleeps>>
            ELSE IF attempt < MaxRetries - 1
            THEN /\ sleeps' = Append(sleeps, BackoffDelay(attempt))
                 /\ attempt' = attempt + 1
                 /\ UNCHANGED <<single, epc>>
            ELSE IF ExhaustedSingle.raise
            THEN /\ single' = [single EXCEPT !.result = "raised"]
                 /\ epc' = "single_raised"
                 /\ UNCHANGED <<attempt, sleeps>>
            ELSE /\ single' = [single EXCEPT !.result = "returned",
                                              !.vector = ExhaustedSingle.vector]
                 /\ epc' = "single_returned"
                 /\ UNCHANGED <<attempt, sleeps>>
  /\ UNCHANGED <<chunks, texts, bi, embeddings, enhanced, batch_log>>
  /\ UNCHANGED <<store_vars, pipe_vars>>

(***************************************************************************)
(* The vector store (Qdrant), seen from the client                         *)
(***************************************************************************)
\* The collections of the store the configuration may name.
StoreNames == {"kb1", "kb2"}

\* Python's None, for an offset; point ids are numbers from 0.
None == 0 - 1

\* `not x` for an offset: None and the id 0 are falsy.
Falsy(x) == x = None \/ x = 0

\* A point that was in the store before the run.
OldPoint(id) ==
  [id |-> id, vector |-> ServiceVector(<<"o">>, Dim),
   payload |-> [content |-> <<"o">>, metadata |-> 0]]

OldPoints(n) == {OldPoint(id) : id \in 0..(n - 1)}

\* The first id uuid.uuid4 hands out in the model: above every old id.
FirstNewId == MaxOldPoints

\* A store collection: whether it exists, its vector size, its points.
StoreCollection(exists, size, n) ==
  [exists |-> exists, size |-> size, points |-> OldPoints(n)]

\* The shapes a store collection may have before the run: missing, of another
\* vector size, or of size 1536, empty or full.
StoreShapes ==
  { StoreCollection(FALSE, Dim, 0), StoreCollection(TRUE, Dim \div 2, 1),
    StoreCollection(TRUE, Dim, 0), StoreCollection(TRUE, Dim, MaxOldPoints) }

\* collection_info.points_count
PointsCount(st, name) == Cardinality(st[name].points)

Ids(points) == {p.id : p \in points}

RECURSIVE SortedSeq(_)
SortedSeq(S) ==
  IF S = {} THEN <<>>
  ELSE LET m == CHOOSE x \in S : \A y \in S : x <= y
       IN  <<m>> \o SortedSeq(S \ {m})

\* client.scroll(limit, offset): the ids from `offset` on, in id order, at
\* most `limit` of them, and the id the next page starts at (None at the end).
ScrollPage(points, limit, off) ==
  LET from == SortedSeq({i \in Ids(points) : off = None \/ i >= off})
  IN  [ids  |-> SubSeq(from, 1, Min(limit, Len(from))),
       next |-> IF Len(from) > limit THEN from[limit + 1] ELSE None]

\* One entry of the log of store calls: the call issued, not its outcome.
StoreCall(op, name, arg) == [op |-> op, coll |-> name, arg |-> arg]

SeqToSet(q) == {q[k] : k \in 1..Len(q)}

(***************************************************************************)
(* qdrant_manager.py                                                       *)
(***************************************************************************)
\* A verification that does not look at the vector size.
VerifyConnection_NoSizeCheck(st, name, list_ok, info_ok) ==
  IF ~list_ok THEN "raise"
  ELSE IF ~st[name].exists THEN "raise"
  ELSE IF ~info_ok THEN "raise"
  ELSE "ok"

\* _verify_connection, given whether get_collections and get_collection
\* answer: the collection must be listed and its vector size be 1536.
VerifyConnection(st, name, list_ok, info_ok) ==
  IF ~list_ok THEN "raise"
  ELSE IF ~st[name].exists THEN "raise"
  ELSE IF ~info_ok THEN "raise"
  ELSE IF st[name].size # 1536 THEN "raise"
  ELSE "ok"

\* The store calls _verify_connection makes.
VerifyCalls(st, name, list_ok) ==
  <<StoreCall("get_collections", name, <<>>)>>
  \o (IF list_ok /\ st[name].exists
      THEN <<StoreCall("get_collection", name, <<>>)>>
      ELSE <<>>)

\* A clear without the early return.
AlreadyEmpty_Never(current_points) == FALSE

\* clear_collection: `if current_points == 0: return`
AlreadyEmpty(current_points) == current_points = 0

\* No embedding under the key 'embedding'.
NoEmbedding == [kind |-> "none", dim |-> 0, of |-> <<>>]

\* `not embedding`: None or an empty list
NotTruthy(e) == e.kind = "none" \/ e.dim = 0

NoPoint == [id |-> None, vector |-> NoEmbedding,
            payload |-> [content |-> <<>>, metadata |-> 0]]

\* _create_qdrant_point(chunk), with the uuid it draws
CreateQdrantPoint(chunk, id) ==
  IF NotTruthy(chunk.embedding) THEN NoPoint
  ELSE IF chunk.embedding.dim # 1536 THEN NoPoint
  ELSE [id |-> id, vector |-> chunk.embedding,
        payload |-> [content |-> chunk.content, metadata |-> chunk.metadata]]

\* The points of a batch: none if any chunk of the batch is invalid.
BatchPoints_AllOrNothing(batch, first_id) ==
  LET made == [k \in 1..Len(batch) |-> CreateQdrantPoint(batch[k], first_id + k - 1)]
  IN  IF \E k \in 1..Len(made) : made[k] = NoPoint THEN <<>> ELSE made

\* The points of a batch: one per chunk for which _create_qdrant_point
\* returns a point, in order.
BatchPoints(batch, first_id) ==
  LET made == [k \in 1..Len(batch) |-> CreateQdrantPoint(batch[k], first_id + k - 1)]
  IN  SelectSeq(made, LAMBDA p : p # NoPoint)

\* What _verify_upsert finds, given whether get_collection answers.
VerifyUpsert(st, name, expected_count, info_ok) ==
  IF ~info_ok THEN "error"
  ELSE IF PointsCount(st, name) = expected_count THEN "match"
  ELSE "mismatch"

\* The QdrantManager for collection `name`, just constructed.
ManagerIdle(name) ==
  /\ store_calls = <<>>
  /\ qcoll = name
  /\ qpc = "idle"
  /\ offset = None
  /\ total_deleted = 0
  /\ pre_clear = <<>>
  /\ clear_outcomes = <<>>
  /\ uchunks = <<>>
  /\ ui = 0
  /\ total_upserted = 0
  /\ verify_result = "none"

\* clear_collection up to its call of _delete_all_points_by_scroll
ClearStart ==
  /\ qpc = "idle"
  /\ pre_clear' = <<store[qcoll].points>>
  /\ clear_outcomes' = <<>>
  /\ \E info_ok \in BOOLEAN :
       /\ store_calls' = Append(store_calls,
                                StoreCall("get_collection", qcoll, <<>>))
       /\ qpc' = IF ~info_ok THEN "clear_raised"
                 ELSE IF AlreadyEmpty(PointsCount(store, qcoll)) THEN "clear_returned"
                 ELSE "scroll"
  /\ offset' = None
  /\ total_deleted' = 0
  /\ UNCHANGED <<store, next_id, qcoll, uchunks, ui, total_upserted, verify_result>>
  /\ UNCHANGED <<embed_vars, pipe_vars>>

\* A deletion whose exception reaches clear_collection, which re-raises it.
ScrollError_Reraise == "clear_raised"

\* A deletion that, after an exception, goes round the loop again.
ScrollError_Retry == "scroll"

\* The except block of _delete_all_points_by_scroll: the exception is logged
\* and not re-raised, so the caller, clear_collection, returns.
ScrollError == "clear_returned"

\* One iteration of the while loop of _delete_all_points_by_scroll: a scroll,
\* then a delete of the page.  An exception of either call ends the method
\* without being re-raised, and clear_collection returns.
ScrollDelete ==
  /\ qpc = "scroll"
  /\ \E scroll_ok \in BOOLEAN, delete_ok \in BOOLEAN :
       LET page     == ScrollPage(store[qcoll].points, ScrollLimit, offset)
           scrolled == Append(store_calls,
                              StoreCall("scroll", qcoll, <<offset>>))
       IN
         IF ~scroll_ok \/ page.ids = <<>>
         THEN /\ store_calls' = scrolled
              /\ clear_outcomes' = Append(clear_outcomes, scroll_ok)
              /\ qpc' = IF ~scroll_ok THEN ScrollError ELSE "clear_returned"
              /\ UNCHANGED <<store, offset, total_deleted>>
         ELSE /\ store_calls' =
                   Append(scrolled, StoreCall("delete", qcoll, page.ids))
              /\ clear_outcomes' = clear_outcomes \o <<scroll_ok, delete_ok>>
              /\ IF ~delete_ok
                 THEN /\ qpc' = ScrollError
                      /\ UNCHANGED <<store, offset, total_deleted>>
                 ELSE /\ store' = [store EXCEPT ![qcoll].points =
                             {p \in @ : p.id \notin SeqToSet(page.ids)}]
                      /\ total_deleted' = total_deleted + Len(page.ids)
                      /\ offset' = page.next
                      /\ qpc' = IF Falsy(page.next) THEN "clear_returned" ELSE "scroll"
  /\ UNCHANGED <<next_id, qcoll, pre_clear, uchunks, ui, total_upserted,
                 verify_result>>
  /\ UNCHANGED <<embed_vars, pipe_vars>>

\* upsert_chunks(cs) up to its batch loop
UpsertStart(cs) ==
  /\ qpc \in {"idle", "clear_returned"}
  /\ uchunks' = cs
  /\ ui' = 0
  /\ total_upserted' = 0
  /\ verify_result' = "none"
  /\ qpc' = "upsert"
  /\ UNCHANGED <<store, next_id, store_calls, qcoll, offset, total_deleted,
                 pre_clear, clear_outcomes>>
  /\ UNCHANGED <<embed_vars, pipe_vars>>

\* An upsert_chunks that logs the exception of a batch write and returns.
UpsertError_Swallow == "upsert_returned"

\* The except block of upsert_chunks: the exception of a batch write leaves
\* the batch loop, is logged and re-raised.
UpsertError == "upsert_raised"

\* One iteration of the batch loop of upsert_chunks.
UpsertBatch ==
  /\ qpc = "upsert"
  /\ ui < Len(uchunks)
  /\ LET batch  == SubSeq(uchunks, ui + 1, Min(ui + UpsertBatchSize, Len(uchunks)))
         points == BatchPoints(batch, next_id)
     IN
       /\ next_id' = next_id + Len(batch)
       /\ IF points = <<>>
          THEN \* `continue`
               /\ ui' = ui + UpsertBatchSize
               /\ UNCHANGED <<store, store_calls, total_upserted, qpc>>
          ELSE \E upsert_ok \in BOOLEAN :
               /\ store_calls' = Append(store_calls,
                                        StoreCall("upsert", qcoll, points))
               /\ IF upsert_ok
                  THEN /\ store' = [store EXCEPT ![qcoll].points =
                              {p \in @ : p.id \notin Ids(SeqToSet(points))}
                              \cup SeqToSet(points)]
                       /\ total_upserted' = total_upserted + Len(points)
                       /\ ui' = ui + UpsertBatchSize
                       /\ UNCHANGED qpc
                  ELSE /\ qpc' = UpsertError
                       /\ UNCHANGED <<store, total_upserted, ui>>
  /\ UNCHANGED <<qcoll, offset, total_deleted, pre_clear, clear_outcomes, uchunks,
                 verify_result>>
  /\ UNCHANGED <<embed_vars, pipe_vars>>

\* A verification that raises unless the count read back is the expected one.
VerifyReturn_Strict(result) ==
  IF result = "match" THEN "upsert_returned" ELSE "upsert_raised"

\* _verify_upsert logs its finding, or the exception of its read, and
\* returns; upsert_chunks returns after it.
VerifyReturn(result) == "upsert_returned"

\* The batch loop is over: _verify_upsert(total_upserted), which never
\* raises, and upsert_chunks returns.
UpsertVerify ==
  /\ qpc = "upsert"
  /\ ui >= Len(uchunks)
  /\ \E info_ok \in BOOLEAN :
       /\ store_calls' = Append(store_calls,
                                StoreCall("get_collection", qcoll, <<>>))
       /\ verify_result' = VerifyUpsert(store, qcoll, total_upserted, info_ok)
       /\ qpc' = VerifyReturn(VerifyUpsert(store, qcoll, total_upserted, info_ok))
  /\ UNCHANGED <<store, next_id, qcoll, offset, total_deleted, pre_clear,
                 clear_outcomes,
                 uchunks, ui, total_upserted>>
  /\ UNCHANGED <<embed_vars, pipe_vars>>

\* The shapes of the 'embedding' of a chunk handed to upsert_chunks: absent,
\* an empty list, one component short, a zero vector, a service vector.
EmbeddingShapes ==
  { NoEmbedding, ServiceVector(<<"a">>, 0), ServiceVector(<<"a">>, Dim - 1),
    ZeroVector, ServiceVector(<<"a">>, Dim) }

\* The chunk lists handed to upsert_chunks, told apart by their metadata.
UpsertLists ==
  UNION { [1..n -> EmbeddingShapes] : n \in 0..MaxUpsertChunks }

MakeEmbedded(es) ==
  [k \in 1..Len(es) |->
     [content |-> <<"a">>, metadata |-> k, embedding |-> es[k]]]

(***************************************************************************)
(* google_drive_handler.py: the walk of a folder tree                      *)
(***************************************************************************)
\* The folders of the drive; folder 1 is the configured root.
Folders == 1..MaxFolders

\* The subfolders a folder may have, in the order files().list gives them.
ChildLists == {SortedSeq(S) : S \in SUBSET Folders}

\* Every drive: any folder may hold any folders, itself and its ancestors
\* included.
Graphs == [Folders -> ChildLists]

\* The folders reachable from a folder through n levels of subfolders.
RECURSIVE ReachableWithin(_, _, _)
ReachableWithin(g, from, n) ==
  IF n = 0 THEN from
  ELSE ReachableWithin(g, from \cup UNION {SeqToSet(g[f]) : f \in from}, n - 1)

Reachable(g, root) == ReachableWithin(g, {root}, MaxFolders)

\* files().list(q, pageSize=1000).execute().get('files', []): the first
\* page of the answer; the code asks for no further page.
ListPage(items) == SubSeq(items, 1, Min(PageSize, Len(items)))

\* The files a folder holds: a supported one and an unsupported one.
FilesIn(f) ==
  << [id |-> 10 * f + 1, supported |-> TRUE],
     [id |-> 10 * f + 2, supported |-> FALSE] >>

\* get_files_from_folder(f), when its listing answers: the files of the
\* page that _process_file_metadata keeps.
FilesFromFolder(f) ==
  LET kept == SelectSeq(ListPage(FilesIn(f)), LAMBDA x : x.supported)
  IN  [k \in 1..Len(kept) |-> kept[k].id]

\* A listing call that raised: the subfolders or the files of a folder.
ListError(call, folder_id) == [call |-> call, folder |-> folder_id]

RECURSIVE FilesFromFolders_Abort(_, _)
\* A loop over all_folder_ids that ends at the first folder whose listing
\* raises.
FilesFromFolders_Abort(ids, failing) ==
  IF ids = <<>> \/ Head(ids) \in failing THEN <<>>
  ELSE FilesFromFolder(Head(ids)) \o FilesFromFolders_Abort(Tail(ids), failing)

RECURSIVE FilesFromFolders(_, _)
\* The loop of get_files_recursively over all_folder_ids: a folder whose
\* listing raises is skipped.
FilesFromFolders(ids, failing) ==
  IF ids = <<>> THEN <<>>
  ELSE (IF Head(ids) \in failing THEN <<>> ELSE FilesFromFolder(Head(ids)))
       \o FilesFromFolders(Tail(ids), failing)

\* A frame of get_all_subfolders: its folder, the subfolders it listed, the
\* position in them, and all_folder_ids.
Frame(folder_id, subfolders) ==
  [folder_id |-> folder_id, subfolders |-> subfolders, idx |-> 1,
   all_folder_ids |-> <<folder_id>>]

\* The caller of a returning get_all_subfolders receives `ret`: the frame
\* below extends all_folder_ids and moves on, or the walk is over.
Deliver(stack, ret) ==
  IF stack = <<>>
  THEN /\ wresult' = ret
       /\ wstack' = <<>>
       /\ wpc' = "walked"
  ELSE LET top == stack[Len(stack)] IN
       /\ wstack' = [stack EXCEPT ![Len(stack)] =
                       [top EXCEPT !.all_folder_ids = @ \o ret, !.idx = @ + 1]]
       /\ UNCHANGED <<wresult, wpc>>

\* get_all_subfolders(folder_id, visited) up to its loop, called from the
\* frames in `stack`: [] for a visited folder, [folder_id] when the listing
\* raises, a new frame otherwise.
Enter(stack, folder_id) ==
  IF folder_id \in visited
  THEN /\ Deliver(stack, <<>>)
       /\ UNCHANGED <<visited, list_calls, list_failed, list_errors>>
  ELSE /\ visited' = visited \cup {folder_id}
       /\ list_calls' = Append(list_calls, folder_id)
       /\ \E list_ok \in BOOLEAN :
            IF list_ok
            THEN /\ wstack' = Append(stack, Frame(folder_id, ListPage(graph[folder_id])))
                 /\ UNCHANGED <<wresult, wpc, list_failed, list_errors>>
            ELSE /\ Deliver(stack, <<folder_id>>)
                 /\ list_failed' = TRUE
                 /\ list_errors' =
                      list_errors \cup {ListError("subfolders", folder_id)}

\* Config.INCLUDE_SUBFOLDERS: the setting of the first configured collection.
LegacyIncludeSubfolders == multi_config.collections[1].include_subfolders

\* Whether the gathering for collection cfg walks the subfolders:
\* process_collection asks cfg (main.py:64), get_files_recursively asks
\* Config.INCLUDE_SUBFOLDERS (line 153).
UseSubfolders(cfg) == cfg.include_subfolders /\ LegacyIncludeSubfolders

\* The folder of collection_config.folders the loop of process_collection
\* is at.
CurrentRoot == collections_to_process[ci].folders[fi]

\* process_collection, lines 61-67, for the next configured folder: the walk
\* begins, or the folder's own files are listed (an exception of that
\* listing is re-raised by get_files_from_folder and leaves the loop).
GatherRoot ==
  /\ wpc = "idle"
  /\ fi <= Len(collections_to_process[ci].folders)
  /\ IF UseSubfolders(collections_to_process[ci])
     THEN /\ wpc' = "walk"
          /\ UNCHANGED <<gathered, visited, list_calls, list_failed, wstack,
                         wresult, list_errors>>
     ELSE /\ \E list_ok \in BOOLEAN :
               /\ wpc' = IF list_ok THEN "done" ELSE "raised"
               /\ gathered' = IF list_ok THEN FilesFromFolder(CurrentRoot) ELSE <<>>
               /\ list_failed' = ~list_ok
               /\ list_errors' = IF list_ok THEN list_errors
                                 ELSE list_errors
                                        \cup {ListError("files", CurrentRoot)}
          /\ UNCHANGED <<visited, list_calls, wstack, wresult>>
  /\ UNCHANGED <<fi, all_processed_files, root_errors>>
  /\ UNCHANGED <<graph, doc_vars, extract_vars>>
  /\ UNCHANGED <<mpc, ci, results, successful_collections, failed_collections, ppc,
                 files, documents, all_chunks, verified, download_log,
                 multi_config, target_collection, collections_to_process, first_run,
                 summary>>
  /\ UNCHANGED <<embed_vars, store_vars>>

\* get_files_recursively calls get_all_subfolders(folder_id).
WalkStart ==
  /\ wpc = "walk"
  /\ wstack = <<>>
  /\ visited = {}
  /\ Enter(<<>>, CurrentRoot)
  /\ UNCHANGED <<fi, all_processed_files, root_errors>>
  /\ UNCHANGED <<graph, gathered, doc_vars, extract_vars>>
  /\ UNCHANGED <<mpc, ci, results, successful_collections, failed_collections, ppc,
                 files, documents, all_chunks, verified, download_log,
                 multi_config, target_collection, collections_to_process, first_run,
                 summary>>
  /\ UNCHANGED <<embed_vars, store_vars>>

\* One step of the loop of the innermost get_all_subfolders in progress:
\* the call for the next subfolder, or after the last one the return of
\* all_folder_ids.
WalkStep ==
  /\ wpc = "walk"
  /\ wstack # <<>>
  /\ LET top == wstack[Len(wstack)] IN
       IF top.idx <= Len(top.subfolders)
       THEN Enter(wstack, top.subfolders[top.idx])
       ELSE /\ Deliver(SubSeq(wstack, 1, Len(wstack) - 1), top.all_folder_ids)
            /\ UNCHANGED <<visited, list_calls, list_failed, list_errors>>
  /\ UNCHANGED <<fi, all_processed_files, root_errors>>
  /\ UNCHANGED <<graph, gathered, doc_vars, extract_vars>>
  /\ UNCHANGED <<mpc, ci, results, successful_collections, failed_collections, ppc,
                 files, documents, all_chunks, verified, download_log,
                 multi_config, target_collection, collections_to_process, first_run,
                 summary>>
  /\ UNCHANGED <<embed_vars, store_vars>>

\* get_files_recursively, lines 162-196: the files of every folder of
\* all_folder_ids, in order (the lookup of the folders' names changes no
\* state; its exceptions are caught).
FilesOfFolders ==
  /\ wpc = "walked"
  /\ \E failing \in SUBSET SeqToSet(wresult) :
       /\ gathered' = FilesFromFolders(wresult, failing)
       /\ list_failed' = (list_failed \/ failing # {})
       /\ list_errors' =
            list_errors \cup {ListError("files", f) : f \in failing}
  /\ wpc' = "done"
  /\ UNCHANGED <<fi, all_processed_files, root_errors>>
  /\ UNCHANGED <<graph, wstack, visited, list_calls, wresult, doc_vars, extract_vars>>
  /\ UNCHANGED <<mpc, ci, results, successful_collections, failed_collections, ppc,
                 files, documents, all_chunks, verified, download_log,
                 multi_config, target_collection, collections_to_process, first_run,
                 summary>>
  /\ UNCHANGED <<embed_vars, store_vars>>

\* process_collection, lines 69-70: the files of the folder are appended to
\* all_processed_files and the loop goes on with the next configured folder,
\* with a new visited set; after the last one the gathering is over.
NextFolder ==
  /\ wpc = "done"
  /\ all_processed_files' = all_processed_files \o gathered
  /\ root_errors' = Append(root_errors, list_errors)
  /\ fi' = fi + 1
  /\ wpc' = IF fi + 1 > Len(collections_to_process[ci].folders)
            THEN "gathered" ELSE "idle"
  /\ wstack' = <<>>
  /\ visited' = {}
  /\ list_calls' = <<>>
  /\ list_failed' = FALSE
  /\ list_errors' = {}
  /\ wresult' = <<>>
  /\ gathered' = <<>>
  /\ UNCHANGED <<graph, doc_vars, extract_vars>>
  /\ UNCHANGED <<mpc, ci, results, successful_collections, failed_collections, ppc,
                 files, documents, all_chunks, verified, download_log,
                 multi_config, target_collection, collections_to_process, first_run,
                 summary>>
  /\ UNCHANGED <<embed_vars, store_vars>>

(***************************************************************************)
(* google_drive_handler.py: _extract_image_content                         *)
(***************************************************************************)
\* What a call made for the image may bring back: an exception or a text.
CallResults ==
  { [exc |-> TRUE, text |-> <<>>] } \cup { [exc |-> FALSE, text |-> t] : t \in Texts }

\* The file names of the model: an empty one and a plain one.
FileNames == { <<>>, <<"a">> }

\* The inputs of _extract_image_content: the file name, whether the imports
\* and Image.open succeed, what pytesseract.image_to_string does and what
\* the vision pass (conversion, API key, chat completion) does.
ImageInputs ==
  [file_name : FileNames, open_ok : BOOLEAN, ocr : CallResults,
   vision : CallResults]

\* "\n\n".join(content_parts)
RECURSIVE JoinParts(_)
JoinParts(parts) ==
  IF parts = <<>> THEN <<>>
  ELSE IF Len(parts) = 1 THEN parts[1]
  ELSE parts[1] \o <<"NL", "NL">> \o JoinParts(Tail(parts))

\* An extraction that returns the empty string when it has found nothing.
ExtractImageContent_NoFallback(img) ==
  IF ~img.open_ok THEN <<>>
  ELSE LET ocr_text == IF img.ocr.exc THEN <<>> ELSE Strip(img.ocr.text)
           description == IF img.vision.exc THEN <<>> ELSE Strip(img.vision.text)
       IN  ocr_text \o description

\* _extract_image_content(content, mime_type, file_name): the text it
\* returns; the fixed pieces of the f-strings are single items of the text.
ExtractImageContent(img) ==
  IF ~img.open_ok
  THEN \* the outer except block
       <<"IMAGE FILE: ">> \o img.file_name \o <<" (analysis failed: ", "e", ")">>
  ELSE LET ocr_text == IF img.ocr.exc THEN <<>> ELSE Strip(img.ocr.text)
           ocr_part ==
             IF ocr_text # <<>>
             THEN << <<"EXTRACTED TEXT:", "NL">> \o ocr_text >>
             ELSE <<>>
           description == IF img.vision.exc THEN <<>> ELSE Strip(img.vision.text)
           vision_part ==
             IF img.vision.exc
             THEN << <<"VISUAL DESCRIPTION:", "NL", "Image file: ">>
                       \o img.file_name \o <<" (", "size", " pixels, ", "mode", " mode)">> >>
             ELSE IF description # <<>>
             THEN << <<"VISUAL DESCRIPTION:", "NL">> \o description >>
             ELSE <<>>
           content_parts == ocr_part \o vision_part
       IN  IF content_parts # <<>>
           THEN <<"IMAGE ANALYSIS - ">> \o img.file_name \o <<"NL">>
                  \o JoinParts(content_parts)
           ELSE <<"IMAGE FILE: ">> \o img.file_name \o <<" (", "size", " pixels)">>

\* _extract_image_content is called and returns.
ExtractImage ==
  /\ xpc = "idle"
  /\ image_content' = ExtractImageContent(image_input)
  /\ xpc' = "returned"
  /\ UNCHANGED <<image_input, walk_vars, doc_vars>>
  /\ UNCHANGED <<mpc, ci, results, successful_collections, failed_collections, ppc,
                 files, documents, all_chunks, verified, download_log,
                 multi_config, target_collection, collections_to_process, first_run,
                 summary>>
  /\ UNCHANGED <<embed_vars, store_vars>>

(***************************************************************************)
(* document_processor.py: the line range of every chunk                    *)
(***************************************************************************)

\* A line range that is moved back to end at the last line of the document
\* when it would pass it.
FindLineRange_AlignToEnd(n_lines, total, start_from_line) ==
  LET end_line == start_from_line + n_lines - 1
  IN  IF end_line > total
      THEN [from |-> total - n_lines + 1, to |-> total]
      ELSE [from |-> start_from_line, to |-> end_line]

\* A line range whose end is not held to the document.
FindLineRange_NoClamp(n_lines, total, start_from_line) ==
  [from |-> start_from_line, to |-> start_from_line + n_lines - 1]

\* _find_line_range, given the number of lines of the chunk, len(lines) and
\* start_from_line.
FindLineRange(n_lines, total, start_from_line) ==
  LET end_line == start_from_line + n_lines - 1
  IN  [from |-> start_from_line,
       to   |-> IF end_line > total THEN total ELSE end_line]

\* process_document begins: the content is split into lines and chunks.
SplitDocument ==
  /\ dpc = "idle"
  /\ dpc' = "chunks"
  /\ current_line' = 1
  /\ processed_chunks' = <<>>
  /\ UNCHANGED <<total_lines, chunk_lines, walk_vars, extract_vars>>
  /\ UNCHANGED <<mpc, ci, results, successful_collections, failed_collections, ppc,
                 files, documents, all_chunks, verified, download_log,
                 multi_config, target_collection, collections_to_process, first_run,
                 summary>>
  /\ UNCHANGED <<embed_vars, store_vars>>

\* One iteration of the loop of process_document over the chunks, or after
\* the last chunk its return.
ChunkRange ==
  /\ dpc = "chunks"
  /\ IF Len(processed_chunks) < Len(chunk_lines)
     THEN LET range == FindLineRange(chunk_lines[Len(processed_chunks) + 1],
                                     total_lines, current_line)
          IN  /\ processed_chunks' = Append(processed_chunks, range)
              /\ current_line' = range.to + 1
              /\ UNCHANGED dpc
     ELSE /\ dpc' = "returned"
          /\ UNCHANGED <<processed_chunks, current_line>>
  /\ UNCHANGED <<total_lines, chunk_lines, walk_vars, extract_vars>>
  /\ UNCHANGED <<mpc, ci, results, successful_collections, failed_collections, ppc,
                 files, documents, all_chunks, verified, download_log,
                 multi_config, target_collection, collections_to_process, first_run,
                 summary>>
  /\ UNCHANGED <<embed_vars, store_vars>>

(***************************************************************************)
(* main.py                                                                 *)
(***************************************************************************)
\* multi_config.collections: the configured collections, in order.
Collections ==
  << [name |-> "A", qdrant_collection |-> "kb1", missing_fields |-> {}],
     [name |-> "B", qdrant_collection |-> "kb2", missing_fields |-> {}] >>

\* A configuration whose second collection is named like the first one's
\* store collection.
AliasedCollections ==
  << [name |-> "A", qdrant_collection |-> "kb1", missing_fields |-> {}],
     [name |-> "kb1", qdrant_collection |-> "kb2", missing_fields |-> {}] >>

\* A configuration whose second collection lacks a required field.
IncompleteCollections ==
  << [name |-> "A", qdrant_collection |-> "kb1", missing_fields |-> {}],
     [name |-> "B", qdrant_collection |-> "kb2",
      missing_fields |-> {"qdrant_host"}] >>

\* MultiCollectionConfig: whether its constructor returns (it raises
\* ValueError on bad JSON, a missing key or no folder id), the credentials
\* path, the collections.
MultiConfig(loads, credentials_path, collections) ==
  [loads |-> loads, google_drive_credentials_path |-> credentials_path,
   collections |-> collections]

ValidConfig == MultiConfig(TRUE, TRUE, Collections)

InvalidConfigs ==
  { MultiConfig(FALSE, TRUE, <<>>),
    MultiConfig(TRUE, FALSE, Collections),
    MultiConfig(TRUE, TRUE, <<>>),
    MultiConfig(TRUE, TRUE, IncompleteCollections) }

\* sys.argv[1], "" standing for its absence (both are falsy in main).
NoTarget == ""
Targets == {"A", "B", "kb1", "kb2", "zz"}

\* The configurations and arguments the program is started with.
Invocations ==
  {[config |-> ValidConfig, target |-> NoTarget]}
  \cup {[config |-> MultiConfig(TRUE, TRUE, cs), target |-> t] :
          cs \in {Collections, AliasedCollections}, t \in Targets}
  \cup {[config |-> c, target |-> t] :
          c \in InvalidConfigs, t \in {NoTarget, "A"}}

\* A validation that does not look at the collections' fields.
Validate_CredentialsOnly(cfg) ==
  IF ~cfg.google_drive_credentials_path THEN "raise" ELSE "ok"

\* MultiCollectionConfig.validate
Validate(cfg) ==
  IF ~cfg.google_drive_credentials_path THEN "raise"
  ELSE IF cfg.collections = <<>> THEN "raise"
  ELSE IF \E k \in 1..Len(cfg.collections) : cfg.collections[k].missing_fields # {}
       THEN "raise"
  ELSE "ok"

\* A filter that keeps every configured collection that matches.
CollectionsToProcess_AllMatches(collections, target) ==
  IF target = NoTarget THEN collections
  ELSE SelectSeq(collections,
                 LAMBDA c : c.name = target \/ c.qdrant_collection = target)

\* main, lines 176-183: the configured collections, or with a target the
\* first one whose name or qdrant_collection is the target (`break`).
CollectionsToProcess(collections, target) ==
  IF target = NoTarget THEN collections
  ELSE LET matches == SelectSeq(collections,
                        LAMBDA c : c.name = target \/ c.qdrant_collection = target)
       IN  IF matches = <<>> THEN <<>> ELSE <<Head(matches)>>

\* A summary that does not raise for failed collections.
MainOutcome_IgnoreFailures(rs, failed) ==
  IF \E k \in 1..Len(rs) : ~rs[k].success /\ ~rs[k].has_name
  THEN "raised" ELSE "done"

\* main, lines 224-229: the detailed-results loop logs one line per result,
\* with result['collection_name'] in it; the first result without that key
\* raises KeyError, which ends the loop.
RECURSIVE SummaryEntries(_)
SummaryEntries(rs) ==
  IF rs = <<>> THEN <<>>
  ELSE IF ~Head(rs).has_name THEN <<>>
  ELSE <<[collection_name |-> Head(rs).collection_name,
          success |-> Head(rs).success,
          error |-> Head(rs).error]>> \o SummaryEntries(Tail(rs))

\* main, lines 224-235: the summary loop raises KeyError on a failed result
\* without 'collection_name'; main raises if a collection failed.
MainOutcome(rs, failed) ==
  IF \E k \in 1..Len(rs) : ~rs[k].success /\ ~rs[k].has_name
  THEN "raised"
  ELSE IF failed > 0 THEN "raised" ELSE "done"

\* The steps of download_file_content that may fail for a file.
FailSteps == {"download", "decode", "parse_docx_pdf", "parse_other"}

\* The file-identity string an extractor returns when it fails.
FallbackText == <<"b">>

\* A download whose failure is not caught.
DownloadFileContent_Raise(fail, text) ==
  [raise |-> fail = "download",
   text  |-> IF fail = "none" THEN text ELSE <<>>]

\* download_file_content, given the step that fails for the file ("none" if
\* none does) and the text of the file: never an exception.
DownloadFileContent(fail, text) ==
  [raise |-> FALSE,
   text  |-> IF fail \in {"download", "decode", "parse_docx_pdf"} THEN <<>>
             ELSE IF fail = "parse_other" THEN FallbackText
             ELSE text]

\* What the walk of the configured folders may gather (files are numbered).
FileLists == { <<>>, <<1>>, <<1, 2>> }

\* The text of a file: none, one line, two lines.
Contents == { <<>>, <<"a">>, <<"a", "NL", "b">> }

\* What may happen at the download of a file.
DownloadInputs ==
  {[fail |-> f, text |-> <<>>] : f \in FailSteps}
  \cup {[fail |-> "none", text |-> t] : t \in Contents}

\* What process_document may make of a document: no chunk (it returns [] on
\* any exception), or the chunks the text splitter cuts the content into.
SplitOptions(content) ==
  IF content = <<"a", "NL", "b">>
  THEN { <<>>, <<content>>, << <<"a">>, <<"b">> >> }
  ELSE { <<>>, <<content>> }

\* A download loop that ends at the first file without content.
RECURSIVE DocumentsOf_StopAtEmpty(_, _)
DocumentsOf_StopAtEmpty(fs, contents) ==
  IF fs = <<>> \/ Head(contents) = <<>> THEN <<>>
  ELSE << [content |-> Head(contents), metadata |-> Head(fs)] >>
       \o DocumentsOf_StopAtEmpty(Tail(fs), Tail(contents))

\* documents: the files whose content is not empty, with their content
RECURSIVE DocumentsOf(_, _)
DocumentsOf(fs, contents) ==
  IF fs = <<>> THEN <<>>
  ELSE (IF Head(contents) = <<>>
        THEN <<>>
        ELSE << [content |-> Head(contents), metadata |-> Head(fs)] >>)
       \o DocumentsOf(Tail(fs), Tail(contents))

\* The chunks of one document, given the texts it is split into.
DocumentChunks(doc, split) ==
  [k \in 1..Len(split) |-> [content |-> split[k], metadata |-> 10 * doc.metadata + k]]

\* process_multiple_documents: the chunks of every document, in order; a
\* document without content is skipped
RECURSIVE AllChunksOf(_, _)
AllChunksOf(docs, splits) ==
  IF docs = <<>> THEN <<>>
  ELSE (IF Head(docs).content = <<>> THEN <<>>
        ELSE DocumentChunks(Head(docs), Head(splits)))
       \o AllChunksOf(Tail(docs), Tail(splits))

\* The ways to split every document of a list.
SplitChoices(docs) ==
  { sp \in [1..Len(docs) -> UNION {SplitOptions(c) : c \in Contents}] :
      \A k \in 1..Len(docs) : sp[k] \in SplitOptions(docs[k].content) }

\* The dict process_collection returns from its except block.
FailureResult(name) ==
  [success |-> FALSE, has_name |-> TRUE, collection_name |-> name,
   error |-> "exception", documents_processed |-> 0, chunks_created |-> 0,
   points_upserted |-> 0]

\* The dicts of the two early returns: they carry no 'collection_name'.
EarlyResult(error) ==
  [success |-> FALSE, has_name |-> FALSE, collection_name |-> "",
   error |-> error, documents_processed |-> 0, chunks_created |-> 0,
   points_upserted |-> 0]

SuccessResult(name, ndocs, nchunks, npoints) ==
  [success |-> TRUE, has_name |-> TRUE, collection_name |-> name,
   error |-> "", documents_processed |-> ndocs, chunks_created |-> nchunks,
   points_upserted |-> npoints]

\* A main that puts the newest result first.
Return_Prepend(r) ==
  /\ results' = <<r>> \o results
  /\ successful_collections' = successful_collections + (IF r.success THEN 1 ELSE 0)
  /\ failed_collections' = failed_collections + (IF r.success THEN 0 ELSE 1)
  /\ ci' = ci + 1
  /\ ppc' = "idle"
  /\ UNCHANGED mpc

\* A loop that ends at the first failed collection.
Return_Abort(r) ==
  /\ results' = Append(results, r)
  /\ successful_collections' = successful_collections + (IF r.success THEN 1 ELSE 0)
  /\ failed_collections' = failed_collections + (IF r.success THEN 0 ELSE 1)
  /\ ci' = IF r.success THEN ci + 1 ELSE Len(collections_to_process) + 1
  /\ ppc' = "idle"
  /\ UNCHANGED mpc

\* process_collection returns r: main appends it and counts it.
Return(r) ==
  /\ results' = Append(results, r)
  /\ successful_collections' = successful_collections + (IF r.success THEN 1 ELSE 0)
  /\ failed_collections' = failed_collections + (IF r.success THEN 0 ELSE 1)
  /\ ci' = ci + 1
  /\ ppc' = "idle"
  /\ UNCHANGED mpc

\* A manager that takes the name of its collection from the legacy Config,
\* which gives the first configured collection's.
ManagerCollection_Legacy(cfg) == multi_config.collections[1].qdrant_collection

\* QdrantManager.__init__ with a collection_config: self.collection_name is
\* the store collection of that configuration.
ManagerCollection(cfg) == cfg.qdrant_collection

\* process_collection, lines 41-51: the components are constructed, the
\* QdrantManager verifies its collection, the initial stats are read.
ProcessInit ==
  /\ mpc = "loop"
  /\ ci <= Len(collections_to_process)
  /\ ppc = "idle"
  /\ LET cfg == collections_to_process[ci] IN
     \E list_ok \in BOOLEAN, info_ok \in BOOLEAN :
       LET outcome == VerifyConnection(store, ManagerCollection(cfg), list_ok, info_ok)
           calls   == VerifyCalls(store, ManagerCollection(cfg), list_ok)
       IN
         /\ qcoll' = ManagerCollection(cfg)
         /\ verified' = (outcome = "ok")
         /\ IF outcome = "ok"
            THEN /\ store_calls' = Append(calls,
                      StoreCall("get_collection", ManagerCollection(cfg), <<>>))
                 /\ ppc' = "walk"
                 /\ UNCHANGED <<mpc, ci, results, successful_collections,
                                failed_collections>>
            ELSE /\ store_calls' = calls
                 /\ Return(FailureResult(cfg.name))
  /\ files' = <<>>
  /\ documents' = <<>>
  /\ all_chunks' = <<>>
  /\ download_log' = <<>>
  /\ UNCHANGED aux_vars
  /\ chunks' = <<>>
  /\ texts' = <<>>
  /\ bi' = 0
  /\ attempt' = 0
  /\ embeddings' = <<>>
  /\ epc' = "idle"
  /\ enhanced' = <<>>
  /\ single' = NoSingle
  /\ remote_calls' = <<>>
  /\ sleeps' = <<>>
  /\ plan' = <<>>
  /\ batch_log' = <<>>
  /\ qpc' = "idle"
  /\ offset' = None
  /\ total_deleted' = 0
  /\ pre_clear' = <<>>
  /\ clear_outcomes' = <<>>
  /\ uchunks' = <<>>
  /\ ui' = 0
  /\ total_upserted' = 0
  /\ verify_result' = "none"
  /\ UNCHANGED <<store, next_id>>

\* Step 1, lines 60-76: the files of the configured folders are gathered; a
\* listing error that reaches process_collection fails the run.
GatherFiles ==
  /\ ppc = "walk"
  /\ \/ /\ Return(FailureResult(collections_to_process[ci].name))
        /\ UNCHANGED files
     \/ \E fs \in FileLists :
          /\ files' = fs
          /\ IF fs = <<>>
             THEN Return(EarlyResult("No files found"))
             ELSE /\ ppc' = "download"
                  /\ UNCHANGED <<mpc, ci, results, successful_collections,
                                 failed_collections>>
  /\ UNCHANGED <<documents, all_chunks, verified, download_log>>
  /\ UNCHANGED aux_vars
  /\ UNCHANGED <<embed_vars, store_vars>>

\* Step 2, lines 80-100: every file is downloaded; a file without content
\* is skipped.
DownloadAll ==
  /\ ppc = "download"
  /\ \E inputs \in [1..Len(files) -> DownloadInputs] :
       LET got == [k \in 1..Len(files) |->
                     DownloadFileContent(inputs[k].fail, inputs[k].text)]
       IN
         /\ download_log' =
              [k \in 1..Len(files) |->
                 [fail |-> inputs[k].fail, text |-> got[k].text]]
         /\ IF \E k \in 1..Len(files) : got[k].raise
            THEN /\ Return(FailureResult(collections_to_process[ci].name))
                 /\ UNCHANGED documents
            ELSE /\ documents' =
                      DocumentsOf(files, [k \in 1..Len(files) |-> got[k].text])
                 /\ ppc' = "chunk"
                 /\ UNCHANGED <<mpc, ci, results, successful_collections,
                                failed_collections>>
  /\ UNCHANGED <<files, all_chunks, verified>>
  /\ UNCHANGED aux_vars
  /\ UNCHANGED <<embed_vars, store_vars>>

\* A chunking step without the early return.
NoChunks_Never(cs) == FALSE

\* Line 106: `if not all_chunks`
NoChunks(cs) == cs = <<>>

\* Step 3, lines 104-110: the documents are cut into chunks.
ChunkAll ==
  /\ ppc = "chunk"
  /\ \E splits \in SplitChoices(documents) :
       LET cs == AllChunksOf(documents, splits) IN
         /\ all_chunks' = cs
         /\ IF NoChunks(cs)
            THEN Return(EarlyResult("No chunks created"))
            ELSE /\ ppc' = "embed"
                 /\ UNCHANGED <<mpc, ci, results, successful_collections,
                                failed_collections>>
  /\ UNCHANGED <<files, documents, verified>>
  /\ download_log' = <<>>
  /\ UNCHANGED aux_vars
  /\ UNCHANGED <<embed_vars, store_vars>>

\* Step 4, line 114: add_embeddings_to_chunks(all_chunks) is called.
EmbedChunks ==
  /\ ppc = "embed"
  /\ CallAddEmbeddings(all_chunks)

\* add_embeddings_to_chunks is over: on its return the run goes on to the
\* load, on an exception the run fails.
AfterEmbed ==
  /\ ppc = "embed"
  /\ epc \in {"returned", "raised"}
  /\ IF epc = "returned"
     THEN /\ ppc' = "load"
          /\ UNCHANGED <<mpc, ci, results, successful_collections,
                         failed_collections>>
     ELSE Return(FailureResult(collections_to_process[ci].name))
  /\ UNCHANGED <<files, documents, all_chunks, verified, download_log>>
  /\ UNCHANGED aux_vars
  /\ UNCHANGED embed_vars
  /\ UNCHANGED store_vars

\* A load that may begin while the embeddings are still being generated.
LoadBegins_BeforeEmbedding(p) == p \in {"embed", "load"}

\* Lines 114-119: clear_collection() is called after
\* add_embeddings_to_chunks has returned.
LoadBegins(p) == p = "load"

\* Step 5, line 119: clear_collection() is called.
ClearExisting ==
  /\ LoadBegins(ppc)
  /\ ClearStart

\* A load that also goes on to the upsert when clear_collection was not
\* called.
ClearReturned_OrSkipped(q) == q \in {"idle", "clear_returned"}

\* Lines 119-122: the statement after clear_collection() runs when that call
\* has returned.
ClearReturned(q) == q = "clear_returned"

\* Step 6, line 122: upsert_chunks(chunks_with_embeddings) is called once
\* clear_collection has returned.
UpsertNew ==
  /\ ppc = "load"
  /\ ClearReturned(qpc)
  /\ UpsertStart(enhanced)

\* clear_collection or upsert_chunks raised: the run fails.
LoadFailed ==
  /\ ppc = "load"
  /\ qpc \in {"clear_raised", "upsert_raised"}
  /\ Return(FailureResult(collections_to_process[ci].name))
  /\ UNCHANGED <<files, documents, all_chunks, verified, download_log>>
  /\ UNCHANGED aux_vars
  /\ UNCHANGED <<embed_vars, store_vars>>

\* Lines 125-147: upsert_chunks has returned; the final stats are read
\* (get_collection_stats returns {} on an error) and the run succeeds.
FinishCollection ==
  /\ ppc = "load"
  /\ qpc = "upsert_returned"
  /\ \E stats_ok \in BOOLEAN :
       /\ store_calls' = Append(store_calls,
                                StoreCall("get_collection", qcoll, <<>>))
       /\ Return(SuccessResult(collections_to_process[ci].name, Len(documents), Len(all_chunks),
                               IF stats_ok THEN PointsCount(store, qcoll) ELSE 0))
  /\ qpc' = "done"
  /\ UNCHANGED <<store, next_id, qcoll, offset, total_deleted, pre_clear,
                 clear_outcomes,
                 uchunks, ui, total_upserted, verify_result>>
  /\ UNCHANGED <<files, documents, all_chunks, verified, download_log>>
  /\ UNCHANGED aux_vars
  /\ UNCHANGED embed_vars

\* main, lines 210-242: every collection was attempted; the summary is
\* logged (result['collection_name'] raises KeyError for a failed result
\* without that key) and main raises if a collection failed.
MainSummary ==
  /\ mpc = "loop"
  /\ ci > Len(collections_to_process)
  /\ ppc = "idle"
  /\ mpc' = MainOutcome(results, failed_collections)
  /\ summary' = SummaryEntries(results)
  /\ UNCHANGED <<ci, results, successful_collections, failed_collections, ppc,
                 files, documents, all_chunks, verified, download_log>>
  /\ UNCHANGED <<multi_config, target_collection, collections_to_process,
                 first_run>>
  /\ UNCHANGED <<walk_vars, doc_vars, extract_vars>>
  /\ UNCHANGED <<embed_vars, store_vars>>

\* main, lines 169-199: the configuration is loaded and validated, the
\* collections to process are selected, the GoogleDriveHandler is
\* constructed (it authenticates) and the loop begins; any exception ends
\* main.
MainStart ==
  /\ mpc = "start"
  /\ \E auth_ok \in BOOLEAN :
       LET selected == CollectionsToProcess(multi_config.collections,
                                            target_collection)
       IN
         IF ~multi_config.loads \/ Validate(multi_config) = "raise"
         THEN /\ mpc' = "raised"
              /\ UNCHANGED collections_to_process
         ELSE /\ collections_to_process' = selected
              /\ mpc' = IF (target_collection # NoTarget /\ selected = <<>>) \/ ~auth_ok
                        THEN "raised" ELSE "loop"
  /\ UNCHANGED <<ci, results, successful_collections, failed_collections, ppc,
                 files, documents, all_chunks, verified, download_log>>
  /\ UNCHANGED <<multi_config, target_collection, first_run, summary>>
  /\ UNCHANGED <<walk_vars, doc_vars, extract_vars>>
  /\ UNCHANGED <<embed_vars, store_vars>>

\* run_with_error_handling: sys.exit(0) when main returns, sys.exit(1) when
\* it raises.
ProcessExit ==
  /\ mpc \in {"done", "raised"}
  /\ mpc' = IF mpc = "done" THEN "exit0" ELSE "exit1"
  /\ UNCHANGED <<ci, results, successful_collections, failed_collections, ppc,
                 files, documents, all_chunks, verified, download_log>>
  /\ UNCHANGED aux_vars
  /\ UNCHANGED <<embed_vars, store_vars>>

\* The program has exited and is started again with the same configuration
\* and argument, against the store as the first run left it.
Rerun ==
  /\ mpc \in {"exit0", "exit1"}
  /\ ~first_run.ran
  /\ first_run' = [ran |-> TRUE,
                   success |-> results # <<>> /\ results[1].success,
                   chunks |-> all_chunks,
                   points |-> store[qcoll].points,
                   clear_outcomes |-> clear_outcomes]
  /\ mpc' = "start"
  /\ collections_to_process' = <<>>
  /\ ci' = 1
  /\ results' = <<>>
  /\ successful_collections' = 0
  /\ failed_collections' = 0
  /\ summary' = <<>>
  /\ UNCHANGED <<ppc, files, documents, all_chunks, verified, download_log,
                 multi_config, target_collection>>
  /\ UNCHANGED <<walk_vars, doc_vars, extract_vars>>
  /\ UNCHANGED <<embed_vars, store_vars>>

(***************************************************************************)
(* Specifications                                                          *)
(***************************************************************************)
\* No earlier run of the program.
NoRun == [ran |-> FALSE, success |-> FALSE, chunks |-> <<>>, points |-> {},
          clear_outcomes |-> <<>>]

\* No folder is being walked.
WalkIdle ==
  /\ wpc = "idle"
  /\ wstack = <<>>
  /\ visited = {}
  /\ list_calls = <<>>
  /\ list_failed = FALSE
  /\ wresult = <<>>
  /\ gathered = <<>>
  /\ fi = 1
  /\ all_processed_files = <<>>
  /\ list_errors = {}
  /\ root_errors = <<>>

\* No image is being extracted.
NoImage ==
  [file_name |-> <<>>, open_ok |-> TRUE,
   ocr |-> [exc |-> FALSE, text |-> <<>>],
   vision |-> [exc |-> FALSE, text |-> <<>>]]

ExtractIdle ==
  /\ image_input = NoImage
  /\ xpc = "idle"
  /\ image_content = <<>>

\* No document is being processed.
DocIdle ==
  /\ dpc = "idle"
  /\ current_line = 1
  /\ processed_chunks = <<>>

PipeIdle ==
  /\ WalkIdle
  /\ graph = [f \in Folders |-> <<>>]
  /\ DocIdle
  /\ ExtractIdle
  /\ total_lines = 1
  /\ chunk_lines = <<>>
  /\ mpc = "start"
  /\ collections_to_process = <<>>
  /\ first_run = NoRun
  /\ summary = <<>>
  /\ download_log = <<>>
  /\ ci = 1
  /\ results = <<>>
  /\ successful_collections = 0
  /\ failed_collections = 0
  /\ ppc = "idle"
  /\ files = <<>>
  /\ documents = <<>>
  /\ all_chunks = <<>>
  /\ verified = FALSE

\* The embedding generator on its own: one call of add_embeddings_to_chunks
\* or of generate_embedding, on any input.
InitEmbed ==
  /\ EmbedIdle
  /\ store = [n \in StoreNames |-> StoreCollection(TRUE, Dim, 0)]
  /\ next_id = FirstNewId
  /\ ManagerIdle("kb1")
  /\ PipeIdle
  /\ multi_config = ValidConfig
  /\ target_collection = NoTarget

NextEmbed ==
  \/ \E ts \in ChunkLists : CallAddEmbeddings(MakeChunks(ts))
  \/ BatchAttempt
  \/ ReturnEmbeddings
  \/ \E t \in Texts : CallGenerateEmbedding(t)
  \/ SingleAttempt

SpecEmbed == InitEmbed /\ [][NextEmbed]_vars

\* The QdrantManager on its own, on a verified collection holding any number
\* of points: clear_collection, upsert_chunks, or one after the other.
InitStore ==
  /\ EmbedIdle
  /\ \E n \in 0..MaxOldPoints :
       store = [c \in StoreNames |-> StoreCollection(TRUE, Dim, n)]
  /\ next_id = FirstNewId
  /\ ManagerIdle("kb1")
  /\ PipeIdle
  /\ multi_config = ValidConfig
  /\ target_collection = NoTarget

NextStore ==
  \/ ClearStart
  \/ ScrollDelete
  \/ \E es \in UpsertLists : UpsertStart(MakeEmbedded(es))
  \/ UpsertBatch
  \/ UpsertVerify

SpecStore == InitStore /\ [][NextStore]_vars

\* The same, with the loop of _delete_all_points_by_scroll running on: the
\* method is synchronous, so an iteration that can be made is made.
SpecStoreFair == SpecStore /\ WF_vars(ScrollDelete)

\* The whole run of main over the configured collections, from any shape
\* of the store.
InitPipeline ==
  /\ EmbedIdle
  /\ store \in [StoreNames -> StoreShapes]
  /\ next_id = FirstNewId
  /\ ManagerIdle("kb1")
  /\ PipeIdle
  /\ \E inv \in Invocations :
       /\ multi_config = inv.config
       /\ target_collection = inv.target

NextPipeline ==
  \/ MainStart
  \/ ProcessInit
  \/ GatherFiles
  \/ DownloadAll
  \/ ChunkAll
  \/ EmbedChunks
  \/ BatchAttempt
  \/ ReturnEmbeddings
  \/ AfterEmbed
  \/ ClearExisting
  \/ ScrollDelete
  \/ UpsertNew
  \/ UpsertBatch
  \/ UpsertVerify
  \/ LoadFailed
  \/ FinishCollection
  \/ MainSummary
  \/ ProcessExit

SpecPipeline == InitPipeline /\ [][NextPipeline]_vars

\* The program run twice for its first collection, from any shape of that
\* collection in the store.
InitRerun ==
  /\ EmbedIdle
  /\ \E shape \in StoreShapes :
       store = [n \in StoreNames |->
                  IF n = "kb1" THEN shape ELSE StoreCollection(TRUE, Dim, 0)]
  /\ next_id = FirstNewId
  /\ ManagerIdle("kb1")
  /\ PipeIdle
  /\ multi_config = ValidConfig
  /\ target_collection = "A"

NextRerun ==
  \/ NextPipeline
  \/ Rerun

SpecRerun == InitRerun /\ [][NextRerun]_vars

\* Two configured collections with their include_subfolders settings.
\* The folders configured for a collection, in order.
RootFolders == <<1, 2>>

WalkCollections(first, second) ==
  << [name |-> "A", qdrant_collection |-> "kb1", missing_fields |-> {},
      include_subfolders |-> first, folders |-> RootFolders],
     [name |-> "B", qdrant_collection |-> "kb2", missing_fields |-> {},
      include_subfolders |-> second, folders |-> RootFolders] >>

\* The gathering of the files of a root folder for either of two configured
\* collections, on any drive.
InitWalk ==
  /\ EmbedIdle
  /\ store = [n \in StoreNames |-> StoreCollection(TRUE, Dim, 0)]
  /\ next_id = FirstNewId
  /\ ManagerIdle("kb1")
  /\ WalkIdle
  /\ DocIdle
  /\ ExtractIdle
  /\ target_collection = NoTarget
  /\ first_run = NoRun
  /\ summary = <<>>
  /\ download_log = <<>>
  /\ results = <<>>
  /\ successful_collections = 0
  /\ failed_collections = 0
  /\ files = <<>>
  /\ documents = <<>>
  /\ all_chunks = <<>>
  /\ graph \in Graphs
  /\ total_lines = 1
  /\ chunk_lines = <<>>
  /\ mpc = "loop"
  /\ \E first \in BOOLEAN, second \in BOOLEAN :
       /\ multi_config = MultiConfig(TRUE, TRUE, WalkCollections(first, second))
       /\ collections_to_process = WalkCollections(first, second)
  /\ ci \in 1..2
  /\ ppc = "walk"
  /\ verified = TRUE

NextWalk ==
  \/ GatherRoot
  \/ WalkStart
  \/ WalkStep
  \/ FilesOfFolders
  \/ NextFolder

SpecWalk == InitWalk /\ [][NextWalk]_vars

\* The chunk line counts the splitter may produce for a document: any number
\* of chunks, each of 1 to total lines (overlap lets the counts add up to more
\* than the document has).
ChunkLineCounts(total) ==
  UNION { [1..n -> 1..total] : n \in 0..MaxDocChunks }

\* process_document on any document and any chunking of it.
InitDocument ==
  /\ EmbedIdle
  /\ store = [n \in StoreNames |-> StoreCollection(TRUE, Dim, 0)]
  /\ next_id = FirstNewId
  /\ ManagerIdle("kb1")
  /\ WalkIdle
  /\ DocIdle
  /\ ExtractIdle
  /\ target_collection = NoTarget
  /\ first_run = NoRun
  /\ summary = <<>>
  /\ download_log = <<>>
  /\ results = <<>>
  /\ successful_collections = 0
  /\ failed_collections = 0
  /\ files = <<>>
  /\ documents = <<>>
  /\ all_chunks = <<>>
  /\ graph = [f \in Folders |-> <<>>]
  /\ total_lines \in 1..MaxLines
  /\ chunk_lines \in ChunkLineCounts(total_lines)
  /\ mpc = "start"
  /\ multi_config = ValidConfig
  /\ collections_to_process = <<>>
  /\ ci = 1
  /\ ppc = "idle"
  /\ verified = FALSE

NextDocument ==
  \/ SplitDocument
  \/ ChunkRange

SpecDocument == InitDocument /\ [][NextDocument]_vars

\* _extract_image_content on any image.
InitImage ==
  /\ EmbedIdle
  /\ store = [n \in StoreNames |-> StoreCollection(TRUE, Dim, 0)]
  /\ next_id = FirstNewId
  /\ ManagerIdle("kb1")
  /\ WalkIdle
  /\ DocIdle
  /\ target_collection = NoTarget
  /\ first_run = NoRun
  /\ summary = <<>>
  /\ download_log = <<>>
  /\ results = <<>>
  /\ successful_collections = 0
  /\ failed_collections = 0
  /\ files = <<>>
  /\ documents = <<>>
  /\ all_chunks = <<>>
  /\ graph = [f \in Folders |-> <<>>]
  /\ total_lines = 1
  /\ chunk_lines = <<>>
  /\ mpc = "start"
  /\ multi_config = ValidConfig
  /\ collections_to_process = <<>>
  /\ ci = 1
  /\ ppc = "idle"
  /\ verified = FALSE
  /\ image_input \in ImageInputs
  /\ xpc = "idle"
  /\ image_content = <<>>

NextImage == ExtractImage

SpecImage == InitImage /\ [][NextImage]_vars

(***************************************************************************)
(* Properties of the embedding generator                                   *)
(***************************************************************************)
\* A text made of whitespace only (the empty text included).
IsBlank(t) == \A k \in 1..Len(t) : t[k] \in Whitespace

\* The positions (1-based) of the batch starting at offset `start`.
BatchPositions(start) == (start + 1)..Min(start + EmbedBatchSize, Len(texts))

\* The number of batches of the call in progress.
NumBatches == (Len(texts) + EmbedBatchSize - 1) \div EmbedBatchSize

\* The remote calls made for the k-th finished batch.
CallsOfBatch(k) ==
  batch_log[k].calls_end - (IF k = 1 THEN 0 ELSE batch_log[k - 1].calls_end)

\* C1: generate_embeddings_batch is length-preserving: whatever the texts and
\* whatever the service does, the list it returns holds one vector per text
\* (and at the end of every batch the accumulator holds one vector per text
\* of the batches finished so far).
C1_LengthPreserving ==
  /\ epc = "returned" => Len(embeddings) = Len(texts)
  /\ (epc = "batch" /\ attempt = 0) => Len(embeddings) = Min(bi, Len(texts))

\* C1 witness: a call over three texts has returned, its first batch having
\* exhausted its retries and its second batch having succeeded.
C1_Witness ==
  /\ epc = "returned"
  /\ Len(texts) = MaxTexts
  /\ Len(batch_log) >= 2
  /\ ~batch_log[1].ok
  /\ batch_log[2].ok

\* C2: a batch for which the service fails on attempts 1 and 2 and succeeds
\* on attempt 3 ends with the vectors the service delivered for its
\* non-empty texts, after exactly 3 calls of the service.
C2_ThirdAttemptSucceeds ==
  ( /\ epc \in {"batch", "returned"}
    /\ attempt = 0
    /\ batch_log # <<>>
    /\ plan = <<"error", "error", "full">> )
  => LET k == Len(batch_log) IN
       /\ batch_log[k].ok
       /\ CallsOfBatch(k) = 3
       /\ \A p \in BatchPositions(batch_log[k].start) :
            ~IsBlank(texts[p]) =>
               embeddings[p] = ServiceVector(CleanText(texts[p]), Dim)

\* C3: a batch whose max_retries attempts all failed has a zero vector of
\* length 1536 at each of its positions, the call never raises, and every
\* batch of the call is attempted, in order.
C3_ExhaustedBatchZeroFilled ==
  /\ epc # "raised"
  /\ \A k \in 1..Len(batch_log) :
       ~batch_log[k].ok =>
          /\ batch_log[k].attempts = MaxRetries
          /\ \A p \in BatchPositions(batch_log[k].start) :
               /\ p <= Len(embeddings)
               /\ embeddings[p].kind = "zero"
               /\ embeddings[p].dim = 1536
  /\ \A k \in 1..Len(batch_log) : batch_log[k].start = (k - 1) * EmbedBatchSize
  /\ epc = "returned" => Len(batch_log) = NumBatches

\* C3 witness: the first batch exhausted its retries and a later batch was
\* attempted and finished.
C3_Witness ==
  /\ epc = "returned"
  /\ Len(batch_log) = 2
  /\ ~batch_log[1].ok
  /\ batch_log[1].attempts = MaxRetries

\* C4: a blank text gets a zero vector of length 1536 at its position and is
\* never sent to the service: no call carries a blank text, no call carries
\* an empty list, and a call of generate_embedding on a blank text makes none.
C4_BlankNeverSent ==
  /\ \A c \in 1..Len(remote_calls) :
       /\ remote_calls[c] # <<>>
       /\ \A j \in 1..Len(remote_calls[c]) : ~IsBlank(remote_calls[c][j])
  /\ epc = "returned" =>
       \A p \in 1..Len(texts) :
          IsBlank(texts[p]) =>
             /\ p <= Len(embeddings)
             /\ embeddings[p].kind = "zero"
             /\ embeddings[p].dim = 1536
  /\ \A k \in 1..Len(batch_log) :
       (\A p \in BatchPositions(batch_log[k].start) : IsBlank(texts[p]))
          => CallsOfBatch(k) = 0
  /\ (epc \in {"single", "single_returned", "single_raised"}
        /\ IsBlank(single.text)) =>
       /\ remote_calls = <<>>
       /\ epc = "single_returned" =>
            (single.vector.kind = "zero" /\ single.vector.dim = 1536)

\* C4 witness: a call has returned for a batch that mixes a blank text that
\* is not empty with a text that is not blank.
C4_Witness ==
  /\ epc = "returned"
  /\ \E p, q \in BatchPositions(0) :
       /\ texts[p] # <<>>
       /\ IsBlank(texts[p])
       /\ ~IsBlank(texts[q])

\* The vector add_embeddings_to_chunks owes the chunk at position p: the zero
\* vector for a blank text or a failed batch, the service's vector for the
\* cleaned text otherwise.
ExpectedVector(p) ==
  LET k == ((p - 1) \div EmbedBatchSize) + 1 IN
  IF IsBlank(texts[p]) \/ ~batch_log[k].ok
  THEN ZeroVector
  ELSE ServiceVector(CleanText(texts[p]), Dim)

\* C5: add_embeddings_to_chunks returns one chunk per input chunk, in input
\* order, each with its own content and metadata and with the vector computed
\* for its own text.
C5_PositionalAlignment ==
  epc = "returned" =>
    /\ Len(enhanced) = Len(chunks)
    /\ \A p \in 1..Len(chunks) :
         /\ p <= Len(enhanced)
         /\ enhanced[p].content = chunks[p].content
         /\ enhanced[p].metadata = chunks[p].metadata
         /\ enhanced[p].embedding = ExpectedVector(p)

\* C5 witness: three chunks came back, a blank one between two that are not.
C5_Witness ==
  /\ epc = "returned"
  /\ Len(enhanced) = 3
  /\ ~IsBlank(chunks[1].content)
  /\ IsBlank(chunks[2].content)
  /\ ~IsBlank(chunks[3].content)

(***************************************************************************)
(* Properties of the pipeline and of the QdrantManager                     *)
(***************************************************************************)
\* A run of process_collection has begun for the collection qcoll names.
RunBegun == ci > 1 \/ ppc # "idle"

\* The store calls of the run so far that delete or write points.
MutatingCalls ==
  SelectSeq(store_calls, LAMBDA c : c.op \in {"delete", "upsert"})

\* Some batch of the run's embedding call exhausted its retries.
SomeBatchExhausted == \E k \in 1..Len(batch_log) : ~batch_log[k].ok

\* The new points of a store collection: those written during the run.
NewPoints(name) == {p \in store[name].points : p.id >= FirstNewId}

C6_Inv ==
  \* a run that created chunks fails only in the load, never in the embedding
  /\ (ppc = "idle" /\ ci > 1 /\ all_chunks # <<>>
        /\ ~results[Len(results)].success)
       => qpc \in {"clear_raised", "upsert_raised"}
  \* what is handed to upsert_chunks is every chunk, those of an exhausted
  \* batch with the zero vector
  /\ (ppc = "load" /\ qpc \in {"upsert", "upsert_returned", "upsert_raised"})
       => /\ Len(uchunks) = Len(all_chunks)
          /\ \A p \in 1..Len(all_chunks) :
               /\ uchunks[p].content = all_chunks[p].content
               /\ uchunks[p].metadata = all_chunks[p].metadata
               /\ ~batch_log[((p - 1) \div EmbedBatchSize) + 1].ok
                    => uchunks[p].embedding = ZeroVector
  \* the next collection is attempted whatever the outcome of the last one
  /\ (mpc = "loop" /\ ppc = "idle" /\ ci <= Len(collections_to_process))
       => ENABLED ProcessInit
  /\ (mpc \notin {"start", "loop"} /\ results # <<>>)
       => Len(results) = Len(collections_to_process)

C6_Step ==
  (ppc = "embed" /\ epc # "idle" /\ SomeBatchExhausted /\ ppc' # "embed")
    => (ppc' = "load" /\ ci' = ci)

\* C6: when a batch of a collection's chunks exhausts its embedding attempts,
\* the run does not fail for it: it goes on to clear_collection and to
\* upsert_chunks with the zero-vector chunks, and the collections after it
\* are still processed.
C6_EmbeddingFailureStillLoads == []C6_Inv /\ [][C6_Step]_vars

\* C6 witness: both collections were processed with success, an embedding
\* batch having exhausted its retries, and the zero-vector chunks are in both
\* store collections.
C6_Witness ==
  /\ ci = 3
  /\ ppc = "idle"
  /\ results[1].success
  /\ results[2].success
  /\ SomeBatchExhausted
  /\ \A n \in StoreNames :
       /\ NewPoints(n) # {}
       /\ \A p \in NewPoints(n) : p.vector = ZeroVector

\* C7: when the target collection is missing or its vector size is not 1536,
\* the run ends in the construction of the QdrantManager with a failure, no
\* delete and no upsert call is issued, and the collection is left as it was
\* (in particular it is not created).
C7_VerifyFailureNoMutation ==
  (RunBegun /\ (~store[qcoll].exists \/ store[qcoll].size # 1536))
    => /\ ppc = "idle"
       /\ ~results[Len(results)].success
       /\ results[Len(results)].collection_name = collections_to_process[ci - 1].name
       /\ collections_to_process[ci - 1].qdrant_collection = qcoll
       /\ MutatingCalls = <<>>
       /\ store[qcoll] \in StoreShapes

\* C7 witness: the first collection's target has another vector size and its
\* run has failed; the second collection's target has been written to.
C7_Witness ==
  /\ store["kb1"].exists
  /\ store["kb1"].size # 1536
  /\ Len(results) = 2
  /\ ~results[1].success
  /\ results[2].success
  /\ NewPoints("kb2") # {}

\* C8: once clear_collection has returned, the collection holds no point.
C8_ClearRemovesEveryPoint ==
  qpc = "clear_returned" => store[qcoll].points = {}

\* C9: clear_collection on a collection without points returns (or raises on
\* the failed get_collection) without any scroll or delete call and leaves
\* the store as it was.
C9_ClearEmptyNoOp ==
  (pre_clear = <<{}>> /\ qpc \in {"scroll", "clear_returned", "clear_raised"})
    => /\ qpc # "scroll"
       /\ \A c \in 1..Len(store_calls) : store_calls[c].op = "get_collection"
       /\ Len(store_calls) = 1
       /\ store = [n \in StoreNames |-> StoreCollection(TRUE, Dim, 0)]

\* C9 witness: clear_collection has returned on a collection without points.
C9_Witness ==
  /\ pre_clear = <<{}>>
  /\ qpc = "clear_returned"

\* The chunks of the argument of upsert_chunks whose embedding is present
\* and has 1536 components.
ValidChunks ==
  SelectSeq(uchunks, LAMBDA c : c.embedding.kind # "none" /\ c.embedding.dim = 1536)

UpsertCalls == SelectSeq(store_calls, LAMBDA c : c.op = "upsert")

RECURSIVE ConcatArgs(_)
ConcatArgs(calls) ==
  IF calls = <<>> THEN <<>> ELSE Head(calls).arg \o ConcatArgs(Tail(calls))

\* The points submitted by the upsert calls so far, in order.
WrittenPoints == ConcatArgs(UpsertCalls)

\* C10: the points upsert_chunks submits are, in input order, one per chunk
\* whose embedding is present and has 1536 components, with that chunk's
\* vector and payload and an id of its own, in calls of 1 to batch_size
\* points; once upsert_chunks has returned every such chunk has its point in
\* the store.
C10_UpsertWritesValidChunks ==
  qpc \in {"upsert", "upsert_returned", "upsert_raised"} =>
    /\ \A c \in 1..Len(UpsertCalls) :
         /\ Len(UpsertCalls[c].arg) >= 1
         /\ Len(UpsertCalls[c].arg) <= UpsertBatchSize
    /\ Len(WrittenPoints) <= Len(ValidChunks)
    /\ \A k \in 1..Len(WrittenPoints) :
         /\ k <= Len(ValidChunks)
         /\ WrittenPoints[k].vector.dim = 1536
         /\ WrittenPoints[k].vector = ValidChunks[k].embedding
         /\ WrittenPoints[k].payload =
              [content |-> ValidChunks[k].content, metadata |-> ValidChunks[k].metadata]
         /\ \A j \in 1..Len(WrittenPoints) :
              j # k => WrittenPoints[j].id # WrittenPoints[k].id
    /\ \A p \in NewPoints(qcoll) : p.vector.dim = 1536
    /\ qpc = "upsert_returned" =>
         /\ Len(WrittenPoints) = Len(ValidChunks)
         /\ total_upserted = Len(ValidChunks)
         /\ NewPoints(qcoll) = SeqToSet(WrittenPoints)

\* C10 witness: upsert_chunks has returned for three chunks, the second one
\* with a vector one component short, sharing its batch with a valid one.
C10_Witness ==
  /\ qpc = "upsert_returned"
  /\ Len(uchunks) = 3
  /\ uchunks[1].embedding.dim = 1536
  /\ uchunks[2].embedding.dim = 1535
  /\ uchunks[3].embedding.dim = 1536
  /\ Len(WrittenPoints) = 2

(***************************************************************************)
(* Properties of main and process_collection                               *)
(***************************************************************************)
\* The run of process_collection that has just ended, and its result.
RunEnded == ppc = "idle" /\ ci > 1 /\ Len(results) = ci - 1

LastResult == results[Len(results)]

\* Every scroll and delete call of the run's clear_collection answered.
ClearAnswered == \A k \in 1..Len(clear_outcomes) : clear_outcomes[k]

\* C11: after a run reported successful, the target collection holds as many
\* points as the run created chunks.
C11_PointCountEqualsChunks ==
  (RunEnded /\ LastResult.success)
    => PointsCount(store, qcoll) = LastResult.chunks_created

\* The payloads of a set of points, each with the number of points carrying it.
PayloadBag(points) ==
  [pl \in {p.payload : p \in points} |->
     Cardinality({p \in points : p.payload = pl})]

\* C12: a second successful run for the same collection, creating the same
\* chunks and with the scroll and delete calls of clear_collection answering
\* as in the first run, leaves the collection with the point count and the
\* payloads the first run left.
C12_SecondRunSameCollection ==
  (/\ first_run.ran
   /\ first_run.success
   /\ RunEnded
   /\ LastResult.success
   /\ all_chunks = first_run.chunks
   /\ clear_outcomes = first_run.clear_outcomes)
    => /\ PointsCount(store, qcoll) = Cardinality(first_run.points)
       /\ PayloadBag(store[qcoll].points) = PayloadBag(first_run.points)

C13_Inv ==
  \* one result per collection attempted, in order
  /\ Len(results) = ci - 1
  /\ Len(results) <= Len(collections_to_process)
  /\ \A k \in 1..Len(results) :
       /\ results[k].has_name
            => results[k].collection_name = collections_to_process[k].name
       /\ ~results[k].success => results[k].error # ""
  \* the next collection can be begun whatever the last outcome was
  /\ (mpc = "loop" /\ ppc = "idle" /\ ci <= Len(collections_to_process))
       => ENABLED ProcessInit
  \* the loop is left only when every collection was attempted
  /\ (mpc \notin {"start", "loop"} /\ results # <<>>)
       => Len(results) = Len(collections_to_process)

C13_Step ==
  (ppc # "idle" /\ ppc' = "idle")
    => /\ mpc' = "loop"
       /\ ci' = ci + 1
       /\ Len(results') = Len(results) + 1
       /\ failed_collections' + successful_collections' = Len(results')

\* C13: a collection's failure, at whatever stage, ends its run with a
\* result that records the failure and its error, main stays in its loop,
\* and every later collection is attempted.
C13_FailureIsolation == []C13_Inv /\ [][C13_Step]_vars

\* C13 witness: the first collection failed in upsert_chunks after a batch
\* was written, and the second collection was processed with success.
C13_Witness ==
  /\ Len(results) = 2
  /\ ~results[1].success
  /\ results[1].collection_name = "A"
  /\ NewPoints("kb1") # {}
  /\ results[2].success
  /\ results[2].collection_name = "B"

\* The results so far that report a failure.
FailedResults == {k \in 1..Len(results) : ~results[k].success}

C14_Inv ==
  /\ failed_collections = Cardinality(FailedResults)
  /\ (FailedResults # {} /\ mpc # "loop")
       => /\ mpc \in {"raised", "exit1"}
          /\ Len(results) = Len(collections_to_process)
  /\ mpc \in {"done", "exit0"} => FailedResults = {}

C14_Step ==
  /\ (mpc = "loop" /\ mpc' # "loop") => ci > Len(collections_to_process)
  /\ (mpc = "raised" /\ mpc' # "raised") => mpc' = "exit1"

\* C14: when a targeted collection has failed, main leaves its loop only
\* after every targeted collection was attempted, and then it raises and the
\* process exits with status 1, never with 0.
C14_FailureSignalled == []C14_Inv /\ [][C14_Step]_vars

\* C14 witness: the process has exited with status 1 after the first
\* collection succeeded and the second one failed.
C14_Witness ==
  /\ mpc = "exit1"
  /\ Len(results) = 2
  /\ results[1].success
  /\ ~results[2].success
  /\ results[2].has_name

\* The positions of the configured collections the argument names.
Matching ==
  {k \in 1..Len(multi_config.collections) :
     \/ multi_config.collections[k].name = target_collection
     \/ multi_config.collections[k].qdrant_collection = target_collection}

FirstMatching == CHOOSE k \in Matching : \A j \in Matching : k <= j

\* C15: with an argument at most one collection is processed, the first
\* configured one whose name or qdrant_collection is the argument, and only
\* its store collection is called; when none matches nothing is processed,
\* no call is made and main raises.
C15_TargetSelectsFirstMatch ==
  target_collection # NoTarget =>
    /\ Len(collections_to_process) <= 1
    /\ Len(results) <= 1
    /\ collections_to_process # <<>> =>
         /\ Matching # {}
         /\ collections_to_process[1] = multi_config.collections[FirstMatching]
         /\ \A c \in 1..Len(store_calls) :
              store_calls[c].coll = collections_to_process[1].qdrant_collection
         /\ \A n \in StoreNames :
              n # collections_to_process[1].qdrant_collection
                => store[n] \in StoreShapes
    /\ (Matching # {} /\ mpc = "loop") => collections_to_process # <<>>
    /\ (Matching = {} /\ mpc # "start") =>
         /\ mpc \in {"raised", "exit1"}
         /\ collections_to_process = <<>>
         /\ results = <<>>
         /\ ppc = "idle"
         /\ store_calls = <<>>
         /\ remote_calls = <<>>
         /\ \A n \in StoreNames : store[n] \in StoreShapes

\* C15 witness: the argument is the first collection's store collection and
\* the second collection's name; the first collection alone was processed.
C15_Witness ==
  /\ target_collection = "kb1"
  /\ multi_config.collections = AliasedCollections
  /\ mpc = "exit0"
  /\ Len(results) = 1
  /\ results[1].collection_name = "A"
  /\ NewPoints("kb1") # {}
  /\ NewPoints("kb2") = {}

\* The configuration lacks the credentials path, has no collection, has a
\* collection without a required field, or could not be loaded at all.
ConfigurationInvalid ==
  \/ ~multi_config.loads
  \/ ~multi_config.google_drive_credentials_path
  \/ Len(multi_config.collections) = 0
  \/ \E k \in 1..Len(multi_config.collections) :
       multi_config.collections[k].missing_fields # {}

\* C20: with an invalid configuration main raises before its loop: no
\* collection is processed, nothing is listed, no embedding call and no
\* store call is made, and the process exits with status 1.
C20_InvalidConfigFailsFirst ==
  (ConfigurationInvalid /\ mpc # "start") =>
    /\ mpc \in {"raised", "exit1"}
    /\ collections_to_process = <<>>
    /\ results = <<>>
    /\ ci = 1
    /\ ppc = "idle"
    /\ files = <<>>
    /\ store_calls = <<>>
    /\ remote_calls = <<>>
    /\ \A n \in StoreNames : store[n] \in StoreShapes

\* C20 witness: the process has exited with status 1 on a configuration
\* whose second collection lacks a required field.
C20_Witness ==
  /\ multi_config.collections = IncompleteCollections
  /\ target_collection = NoTarget
  /\ mpc = "exit1"
  /\ results = <<>>

C19_Inv ==
  /\ ppc = "chunk" =>
       /\ Len(download_log) = Len(files)
       /\ \A k \in 1..Len(files) :
            /\ download_log[k].fail # "none"
                 => download_log[k].text \in {<<>>, FallbackText}
            /\ download_log[k].text # <<>>
                 => \E j \in 1..Len(documents) :
                      documents[j] = [content  |-> download_log[k].text,
                                      metadata |-> files[k]]
       /\ Len(documents) =
            Cardinality({k \in 1..Len(files) : download_log[k].text # <<>>})
  \* a run that gathered files and made no chunk ended by the early return,
  \* not by an exception
  /\ (RunEnded /\ files # <<>> /\ all_chunks = <<>> /\ ~LastResult.success)
       => ~LastResult.has_name /\ LastResult.error = "No chunks created"

C19_Step ==
  (ppc = "download" /\ ppc' # "download")
    => (ppc' = "chunk" /\ ci' = ci /\ Len(download_log') = Len(files))

\* C19: download_file_content raises for no file, whatever step fails: the
\* file gets the empty text or the extractor's fallback text, every file of
\* the run is downloaded, and every file with a text becomes a document.
C19_ExtractionNeverFatal == []C19_Inv /\ [][C19_Step]_vars

\* C19 witness: the download of the first of two files failed and the
\* second file became a document.
C19_Witness ==
  /\ ppc = "chunk"
  /\ files = <<1, 2>>
  /\ download_log[1].fail = "download"
  /\ download_log[2].fail = "none"
  /\ documents = <<[content |-> <<"a">>, metadata |-> 2]>>

(***************************************************************************)
(* Properties of the walk and of the line ranges                           *)
(***************************************************************************)
\* The number of positions of a sequence that hold x.
Occurrences(q, x) == Cardinality({k \in 1..Len(q) : q[k] = x})

\* C16: when get_all_subfolders has returned and every listing answered, no
\* folder was listed twice and the result holds every folder reachable from
\* the root exactly once and nothing else.
C16_EachReachableOnce ==
  (wpc = "walked" /\ ~list_failed) =>
    /\ \A f \in Folders : Occurrences(list_calls, f) <= 1
    /\ \A f \in Reachable(graph, CurrentRoot) : Occurrences(wresult, f) = 1
    /\ SeqToSet(wresult) \subseteq Reachable(graph, CurrentRoot)

\* C17: for a collection with include_subfolders, when every listing
\* answered, the files gathered for the root are the supported files of every
\* folder reachable from it.
C17_GathersTransitively ==
  (wpc = "done" /\ collections_to_process[ci].include_subfolders /\ ~list_failed)
    => SeqToSet(gathered) = {10 * f + 1 : f \in Reachable(graph, CurrentRoot)}

\* C18: every chunk of a document has a line range with
\* 1 <= from <= to <= total lines.
C18_LineRangeWithinDocument ==
  \A k \in 1..Len(processed_chunks) :
    /\ 1 <= processed_chunks[k].from
    /\ processed_chunks[k].from <= processed_chunks[k].to
    /\ processed_chunks[k].to <= total_lines

(***************************************************************************)
(* The order of the store operations of one collection run.                *)
(***************************************************************************)
\* The operations of the run's store calls, in call order.
CallOps == [k \in 1..Len(store_calls) |-> store_calls[k].op]

\* The positions of the run's calls of the given operations.
PositionsOf(ops) == {k \in 1..Len(store_calls) : CallOps[k] \in ops}

C21_Inv ==
  \* a scroll, delete or upsert call is made only after the two calls of the
  \* verification, and only when the verification succeeded
  /\ PositionsOf({"scroll", "delete", "upsert"}) # {}
       => /\ verified
          /\ Len(store_calls) > 2
          /\ CallOps[1] = "get_collections"
          /\ CallOps[2] = "get_collection"
          /\ \A k \in PositionsOf({"scroll", "delete", "upsert"}) : k > 2
  \* an upsert call is made only after clear_collection was called and
  \* returned: its own calls precede every upsert call
  /\ PositionsOf({"upsert"}) # {}
       => /\ pre_clear # <<>>
          /\ qpc # "clear_raised"
          /\ \A k \in PositionsOf({"upsert"}) :
               /\ k > 4
               /\ \A j \in PositionsOf({"scroll", "delete"}) : j < k
  \* a run whose clear was not called, or raised, has written nothing
  /\ (pre_clear = <<>> \/ qpc = "clear_raised") => PositionsOf({"upsert"}) = {}
  \* the count is read back after the last upsert call
  /\ verify_result # "none"
       => /\ qpc \in {"upsert_returned", "done"}
          /\ \A k \in PositionsOf({"upsert"}) :
               \E j \in PositionsOf({"get_collection"}) : j > k
  /\ qpc = "done" => CallOps[Len(store_calls)] = "get_collection"

C21_Step ==
  \* clear_collection is entered before the first upsert call of a run
  /\ (PositionsOf({"upsert"}) = {} /\ PositionsOf({"upsert"})' # {})
       => /\ pre_clear # <<>>
          /\ qpc = "upsert"
  \* no upsert call follows the read-back of the count
  /\ (verify_result # "none" /\ verify_result' # "none")
       => PositionsOf({"upsert"})' = PositionsOf({"upsert"})

\* C21: in the run of a collection the target is verified before anything is
\* cleared, clear_collection is called before the first upsert call, no
\* upsert call is made in a run whose clear was skipped, and the count is read
\* back only after the last upsert call.
C21_OperationOrder == []C21_Inv /\ [][C21_Step]_vars

\* A run that cleared a populated collection in pages, wrote two batches and
\* read the count back.
C21_Witness ==
  /\ qpc = "done"
  /\ Cardinality(PositionsOf({"delete"})) >= 2
  /\ Cardinality(PositionsOf({"upsert"})) >= 2
  /\ verify_result = "match"

(***************************************************************************)
(* The retry loops of the embedding generator.                             *)
(***************************************************************************)
\* The waits after n failed attempts that are each followed by another one.
WaitsAfter(n) == [k \in 1..n |-> RetryDelay * k]

\* The waits of the finished batches of batch_log from the k-th on, followed
\* by those of the batch in progress.
RECURSIVE WaitsFrom(_)
WaitsFrom(k) ==
  IF k > Len(batch_log) THEN WaitsAfter(attempt)
  ELSE WaitsAfter(batch_log[k].attempts - 1) \o WaitsFrom(k + 1)

\* The remote calls made for the batch in progress.
CallsInProgress ==
  Len(remote_calls)
    - (IF batch_log = <<>> THEN 0 ELSE batch_log[Len(batch_log)].calls_end)

C22_Inv ==
  \* the attempt in progress is one of the max_retries attempts
  /\ attempt \in 0..(MaxRetries - 1)
  \* generate_embeddings_batch: per batch at most max_retries attempts and
  \* calls; the waits are retry_delay * k after the k-th failed attempt that is
  \* not the last
  /\ epc \in {"batch", "returned"}
       => /\ \A k \in 1..Len(batch_log) :
               /\ batch_log[k].attempts \in 1..MaxRetries
               /\ CallsOfBatch(k) <= batch_log[k].attempts
               /\ ~batch_log[k].ok => batch_log[k].attempts = MaxRetries
          /\ CallsInProgress <= attempt
          /\ sleeps = WaitsFrom(1)
  \* generate_embedding: the same for its one text
  /\ epc \in {"single", "single_returned", "single_raised"}
       => /\ Len(remote_calls) <= MaxRetries
          /\ sleeps = WaitsAfter(attempt)
          /\ epc = "single" => Len(remote_calls) = attempt
          /\ epc = "single_returned" => Len(remote_calls) <= attempt + 1
          /\ epc = "single_raised"
               => /\ attempt = MaxRetries - 1
                  /\ Len(remote_calls) = MaxRetries

C22_Step ==
  \* a wait follows a failed attempt that is not the last, and is
  \* retry_delay * k after the k-th attempt
  /\ sleeps' # sleeps
       => /\ attempt + 1 < MaxRetries
          /\ attempt' = attempt + 1
          /\ sleeps' = Append(sleeps, RetryDelay * (attempt + 1))
  \* nothing is attempted once generate_embedding has returned or raised
  /\ epc \in {"single_returned", "single_raised"}
       => /\ remote_calls' = remote_calls
          /\ sleeps' = sleeps
  \* the attempt that ends a batch is the last one made for it
  /\ Len(batch_log') > Len(batch_log)
       => /\ bi' = bi + EmbedBatchSize
          /\ attempt' = 0
          /\ sleeps' = sleeps

\* C22: the retry loops are bounded with a linear backoff: at most max_retries
\* attempts (and so remote calls) per batch or text, a wait of retry_delay * k
\* after the k-th failed attempt when k < max_retries, no wait after the last
\* failed attempt and no attempt after the first success.
C22_BoundedLinearBackoff == []C22_Inv /\ [][C22_Step]_vars

\* generate_embedding succeeded at its third call, after waits of 1 and 2.
C22_Witness ==
  /\ epc = "single_returned"
  /\ Len(remote_calls) = MaxRetries
  /\ sleeps = <<RetryDelay, 2 * RetryDelay>>

(***************************************************************************)
(* generate_embedding: the dimension of what it returns.                   *)
(***************************************************************************)
\* No response of the calls made so far carried one vector of 1536
\* components.
NoFullResponse == \A k \in 1..Len(plan) : plan[k] # "full"

\* C23: generate_embedding never returns a vector of a length other than
\* 1536; a response of another dimension counts as a failed attempt, and when
\* max_retries attempts have failed the error is raised to the caller: no zero
\* vector is returned for a text that is not blank.
C23_SingleNeverWrongDimension ==
  /\ epc = "single_returned"
       => /\ single.result = "returned"
          /\ single.vector.dim = Dim
          /\ ~IsBlank(single.text)
               => /\ plan # <<>>
                  /\ plan[Len(plan)] = "full"
                  /\ single.vector = ServiceVector(CleanText(single.text), Dim)
  /\ epc = "single"
       => /\ NoFullResponse
          /\ Len(plan) = attempt
  /\ (epc \in {"single_returned", "single_raised"} /\ NoFullResponse
        /\ ~IsBlank(single.text))
       => /\ epc = "single_raised"
          /\ single.result = "raised"
          /\ Len(plan) = MaxRetries

\* The third response was of another dimension, as one before it: the call
\* raised.
C23_Witness ==
  /\ epc = "single_raised"
  /\ Len(plan) = MaxRetries
  /\ plan[MaxRetries] = "wrong_dimension"
  /\ \E k \in 1..(MaxRetries - 1) : plan[k] = "wrong_dimension"

(***************************************************************************)
(* Errors inside the deletion of clear_collection.                         *)
(***************************************************************************)
C24_Inv ==
  \* with a scroll or delete call that raised, clear_collection has returned
  \* (it did not raise), the points not yet deleted are still there, and the
  \* load goes on to upsert_chunks
  /\ (ppc = "load" /\ ~ClearAnswered)
       => /\ qpc \in {"clear_returned", "upsert", "upsert_returned",
                       "upsert_raised"}
          /\ qpc = "clear_returned" => ENABLED UpsertNew
          /\ ~clear_outcomes[Len(clear_outcomes)]
          /\ \A k \in 1..(Len(clear_outcomes) - 1) : clear_outcomes[k]
  \* the run does not fail in clear_collection because of it
  /\ (RunEnded /\ ~ClearAnswered /\ ~LastResult.success)
       => qpc = "upsert_raised"

C24_Step ==
  \* the step at which a scroll or delete call raises ends clear_collection
  \* with a normal return
  (ClearAnswered /\ ~ClearAnswered')
    => /\ qpc = "scroll"
       /\ qpc' = "clear_returned"
       /\ store' = store

\* C24: an error of a scroll or delete call inside clear_collection does not
\* make clear_collection fail: it returns normally and the run goes on to
\* upsert_chunks.
C24_ClearErrorNotFatal == []C24_Inv /\ [][C24_Step]_vars

\* A delete call raised after a page was deleted, and the run went on to
\* write its points and succeeded.
C24_Witness ==
  /\ RunEnded
  /\ LastResult.success
  /\ ~ClearAnswered
  /\ Len(clear_outcomes) >= 4
  /\ total_upserted > 0

(***************************************************************************)
(* A batch write that fails.                                               *)
(***************************************************************************)
\* A batch write of the run's upsert_chunks failed: more points were
\* submitted than were counted as written.
WriteFailed ==
  /\ qpc \in {"upsert", "upsert_returned", "upsert_raised", "done"}
  /\ Len(WrittenPoints) > total_upserted

\* The points of the target collection when clear_collection was entered.
PointsBeforeClear == pre_clear[1]

\* The points submitted by the upsert calls before the last one.
PointsOfEarlierCalls ==
  SeqToSet(ConcatArgs(SubSeq(UpsertCalls, 1, Len(UpsertCalls) - 1)))

C25_Inv ==
  \* the failure is raised by upsert_chunks; the failed call is the last call
  \* of the run: no later batch is submitted and the count is not read back
  /\ WriteFailed
       => /\ qpc = "upsert_raised"
          /\ store_calls[Len(store_calls)].op = "upsert"
          /\ verify_result = "none"
          \* the batches written before it stay
          /\ store[qcoll].points \ PointsBeforeClear = PointsOfEarlierCalls
          /\ Cardinality(PointsOfEarlierCalls) = total_upserted
          \* the points the clear deleted are not put back
          /\ Cardinality(store[qcoll].points \cap PointsBeforeClear)
               = Cardinality(PointsBeforeClear) - total_deleted
  \* the collection's outcome is a failure
  /\ (RunEnded /\ WriteFailed)
       => /\ ~LastResult.success
          /\ LastResult.error # ""
          /\ failed_collections >= 1

C25_Step ==
  \* after the failure nothing more is sent to the store in the run
  (WriteFailed /\ WriteFailed')
    => /\ store' = store
       /\ store_calls' = store_calls

\* C25: when a batch write of upsert_chunks fails, upsert_chunks raises and
\* the collection's outcome is a failure, no later batch is written, and
\* nothing is rolled back: the batches written before stay in the collection
\* and the points the clear deleted are not restored.
C25_UpsertFailureNoRollback == []C25_Inv /\ [][C25_Step]_vars

\* The second batch write failed after the clear had deleted points and the
\* first batch was written, and the run was reported failed.
C25_Witness ==
  /\ RunEnded
  /\ WriteFailed
  /\ Len(UpsertCalls) = 2
  /\ total_upserted > 0
  /\ total_deleted > 0
  /\ ~LastResult.success

(***************************************************************************)
(* The read-back of the count after the load.                              *)
(***************************************************************************)
\* The read-back found another count than the one submitted, or failed.
VerifyUnhappy == verify_result \in {"mismatch", "error"}

\* C26: a count read back that differs from the number of points submitted,
\* or a read-back that fails, never fails the load: upsert_chunks returns
\* normally and the collection is reported successful.
C26_VerifyNeverFatal ==
  /\ VerifyUnhappy
       => /\ qpc \in {"upsert_returned", "done"}
          /\ (ppc = "load" /\ qpc = "upsert_returned") => ENABLED FinishCollection
          /\ verify_result = "mismatch"
               => PointsCount(store, qcoll) # total_upserted
  /\ (RunEnded /\ VerifyUnhappy)
       => /\ LastResult.success
          /\ LastResult.error = ""
          /\ successful_collections >= 1

\* A run reported successful although the count read back was not the number
\* of points written.
C26_Witness ==
  /\ RunEnded
  /\ verify_result = "mismatch"
  /\ LastResult.success
  /\ LastResult.points_upserted # total_upserted

(***************************************************************************)
(* The summary of main.                                                    *)
(***************************************************************************)
\* main is past its summary: it returned, raised or the process has exited,
\* after every targeted collection was attempted.
SummaryOver ==
  /\ mpc \in {"done", "raised", "exit0", "exit1"}
  /\ collections_to_process # <<>>
  /\ Len(results) = Len(collections_to_process)

\* C27: once every collection was attempted the summary holds one entry per
\* collection outcome, failed ones included: the collection's name with its
\* error or with its counts, whatever way the collection failed.
C27_SummaryCoversEveryOutcome ==
  SummaryOver
    => /\ Len(summary) = Len(results)
       /\ \A k \in 1..Len(results) :
            /\ k <= Len(summary)
            /\ summary[k].collection_name = collections_to_process[k].name
            /\ summary[k].success = results[k].success
            /\ summary[k].error = results[k].error

(***************************************************************************)
(* The result list and the counters of main.                               *)
(***************************************************************************)
\* The loop of main over the targeted collections is over.
LoopOver ==
  /\ mpc \in {"loop", "done", "raised", "exit0", "exit1"}
  /\ collections_to_process # <<>>
  /\ ci > Len(collections_to_process)
  /\ ppc = "idle"

C28_Inv ==
  \* while the loop runs: one outcome per collection finished, and the
  \* counters add up to their number
  /\ mpc = "loop"
       => /\ Len(results) = ci - 1
          /\ successful_collections + failed_collections = Len(results)
  \* an outcome that names its collection names the one at its position
  /\ \A k \in 1..Len(results) :
       /\ k <= Len(collections_to_process)
       /\ results[k].has_name
            => results[k].collection_name = collections_to_process[k].name
  \* at the end of the loop: one outcome per targeted collection
  /\ LoopOver
       => /\ Len(results) = Len(collections_to_process)
          /\ successful_collections + failed_collections
               = Len(collections_to_process)
          /\ successful_collections
               = Cardinality({k \in 1..Len(results) : results[k].success})

C28_Step ==
  \* the list only grows, by one outcome, at its end, and one counter grows
  \* with it
  (mpc = "loop" /\ mpc' = "loop" /\ results' # results)
    => /\ Len(results') = Len(results) + 1
       /\ SubSeq(results', 1, Len(results)) = results
       /\ (successful_collections' + failed_collections')
            = (successful_collections + failed_collections) + 1

\* C28: the result list of main holds exactly one outcome per targeted
\* collection, in configuration order, and at the end of the loop
\* successful_collections + failed_collections is the number of targeted
\* collections.
C28_OneOutcomePerCollection == []C28_Inv /\ [][C28_Step]_vars

\* Two collections were targeted: the first succeeded, the second failed.
C28_Witness ==
  /\ LoopOver
  /\ Len(collections_to_process) = 2
  /\ results[1].success
  /\ ~results[2].success
  /\ successful_collections = 1
  /\ failed_collections = 1

(***************************************************************************)
(* Listing errors during the gathering of a collection's files.            *)
(***************************************************************************)
\* The folders whose listing of the given kind raised, among `errors`.
ErrorFolders(errors, call) == {e.folder : e \in {x \in errors : x.call = call}}

\* The drive as the subfolder listings of the walk answered: the first page
\* for a folder whose listing answered, nothing for one whose listing raised.
AnsweredGraph ==
  [f \in Folders |->
     IF f \in ErrorFolders(list_errors, "subfolders") THEN <<>>
     ELSE ListPage(graph[f])]

\* C29: a listing error in one sub-container does not abort the walk:
\* get_all_subfolders returns the failing container itself, once, and goes on
\* with its siblings, so that its result is every folder reached through the
\* listings that answered; get_files_recursively returns the files of every
\* folder of that result whose file listing answered.
C29_ListingErrorContained ==
  /\ (wpc \in {"walked", "done"} /\ wresult # <<>>)
       => /\ \A f \in ErrorFolders(list_errors, "subfolders") :
               Occurrences(wresult, f) = 1
          /\ SeqToSet(wresult) = Reachable(AnsweredGraph, CurrentRoot)
          /\ \A f \in Folders : Occurrences(wresult, f) <= 1
  /\ (wpc = "done" /\ wresult # <<>>)
       => SeqToSet(gathered) =
            {10 * f + 1 :
               f \in SeqToSet(wresult) \ ErrorFolders(list_errors, "files")}
  /\ (wpc = "walk" /\ list_errors # {}) => ENABLED (WalkStep \/ WalkStart)

\* The subfolder listing of a subfolder raised and the file listing of
\* another folder raised; the walk went on to a sibling and its files were
\* gathered.
C29_Witness ==
  /\ wpc = "done"
  /\ Len(wresult) = 3
  /\ \E f \in ErrorFolders(list_errors, "subfolders") : f # CurrentRoot
  /\ ErrorFolders(list_errors, "files") # {}
  /\ gathered # <<>>

\* C30: a listing error for one configured root folder of a collection is
\* contained: the gathering does not raise because of it, every configured
\* folder is gathered, and the files of every configured folder whose listings
\* answered are among the files of the collection, with include_subfolders
\* true and false alike.
C30_RootListingErrorContained ==
  /\ wpc # "raised"
  /\ wpc = "gathered"
       => /\ Len(root_errors) = Len(collections_to_process[ci].folders)
          /\ \A k \in 1..Len(root_errors) :
               root_errors[k] = {}
                 => (10 * collections_to_process[ci].folders[k] + 1)
                      \in SeqToSet(all_processed_files)

(***************************************************************************)
(* The line ranges of the chunks of one document.                          *)
(***************************************************************************)
\* C31: the line ranges of the chunks of a document are non-decreasing in
\* emission order: from(i) <= from(i+1) and to(i) <= to(i+1).
C31_LineRangesNonDecreasing ==
  \A k \in 1..(Len(processed_chunks) - 1) :
    /\ processed_chunks[k].from <= processed_chunks[k + 1].from
    /\ processed_chunks[k].to <= processed_chunks[k + 1].to

\* Three chunks were emitted: the second lies after the first and reaches
\* the last line, where the third ends too.
C31_Witness ==
  /\ dpc = "returned"
  /\ Len(processed_chunks) = 3
  /\ processed_chunks[1].from < processed_chunks[2].from
  /\ processed_chunks[1].to < processed_chunks[2].to
  /\ processed_chunks[2].to = processed_chunks[3].to

\* The lines of a range.
LinesOf(range) == range.from..range.to

\* C32: the first chunk starts at line 1; the range of a chunk is from =
\* cursor, to = min(cursor + lines in the chunk - 1, total lines); the next
\* chunk starts at the line after the end of the one before, so the ranges
\* follow one another and no two of them share a line.
C32_LineCursorRule ==
  /\ processed_chunks # <<>> => processed_chunks[1].from = 1
  /\ \A k \in 1..Len(processed_chunks) :
       processed_chunks[k].to =
         Min(processed_chunks[k].from + chunk_lines[k] - 1, total_lines)
  /\ \A k \in 1..(Len(processed_chunks) - 1) :
       processed_chunks[k + 1].from = processed_chunks[k].to + 1
  /\ dpc = "chunks"
       => current_line = IF processed_chunks = <<>> THEN 1
                         ELSE processed_chunks[Len(processed_chunks)].to + 1
  /\ \A j, k \in 1..Len(processed_chunks) :
       j # k => LinesOf(processed_chunks[j]) \cap LinesOf(processed_chunks[k]) = {}

\* Three chunks of one line each cover a document of three lines.
C32_Witness ==
  /\ dpc = "returned"
  /\ total_lines = 3
  /\ processed_chunks =
       << [from |-> 1, to |-> 1], [from |-> 2, to |-> 2], [from |-> 3, to |-> 3] >>

(***************************************************************************)
(* The text extracted from an image.                                       *)
(***************************************************************************)
\* The text t holds the items of q, in order and next to one another.
Holds(t, q) ==
  \E k \in 0..(Len(t) - Len(q)) : SubSeq(t, k + 1, k + Len(q)) = q

\* C33: _extract_image_content returns a text that is not empty whatever the
\* OCR and the vision call do (succeed, fail, find nothing) and when the image
\* cannot be opened; an OCR failure does not keep the vision pass from
\* contributing, and a vision failure gives the description made of the
\* image's metadata.
C33_ImageNeverDropped ==
  xpc = "returned"
    => /\ image_content # <<>>
       /\ (image_input.open_ok /\ ~image_input.vision.exc
             /\ ~IsBlank(image_input.vision.text))
            => Holds(image_content,
                     <<"VISUAL DESCRIPTION:", "NL">> \o Strip(image_input.vision.text))
       /\ (image_input.open_ok /\ image_input.vision.exc)
            => Holds(image_content,
                     <<"VISUAL DESCRIPTION:", "NL", "Image file: ">>
                       \o image_input.file_name)
       /\ (image_input.open_ok /\ ~image_input.ocr.exc
             /\ ~IsBlank(image_input.ocr.text))
            => Holds(image_content,
                     <<"EXTRACTED TEXT:", "NL">> \o Strip(image_input.ocr.text))

\* The OCR raised, the vision call raised and the file has no name: the text
\* returned is the description made of the image's metadata.
C33_Witness ==
  /\ xpc = "returned"
  /\ image_input.open_ok
  /\ image_input.ocr.exc
  /\ image_input.vision.exc
  /\ image_input.file_name = <<>>
  /\ image_content # <<>>

(***************************************************************************)
(* Documents with empty text.                                              *)
(***************************************************************************)
\* The files of the run whose download gave text, in order.
FilesWithText ==
  SelectSeq(files, LAMBDA f :
    \E k \in 1..Len(download_log) : files[k] = f /\ download_log[k].text # <<>>)

\* The file a chunk was made of.
FileOfChunk(chunk) == chunk.metadata \div 10

\* The files of the run that have become documents.
DocumentFiles == {documents[k].metadata : k \in 1..Len(documents)}

C34_Inv ==
  \* the downloads are over: the documents are the files with text, in
  \* order, those after a file without text included
  /\ (ppc = "chunk" /\ Len(download_log) = Len(files))
       => /\ Len(documents) = Len(FilesWithText)
          /\ \A k \in 1..Len(documents) :
               /\ documents[k].metadata = FilesWithText[k]
               /\ documents[k].content # <<>>
  \* no chunk is made of a file without text, and no chunk is empty
  /\ \A k \in 1..Len(all_chunks) :
       /\ FileOfChunk(all_chunks[k]) \in DocumentFiles
       /\ all_chunks[k].content # <<>>

C34_Step ==
  \* the download step ends in the chunking step, whatever the texts were
  /\ (ppc = "download" /\ ppc' # "download") => ppc' = "chunk"
  \* the chunking step fails the run only when no chunk at all was made
  /\ (ppc = "chunk" /\ ppc' # "chunk")
       => \/ ppc' = "embed" /\ all_chunks' # <<>>
          \/ /\ ppc' = "idle"
             /\ all_chunks' = <<>>
             /\ results'[Len(results')].error = "No chunks created"

\* C34: a document with empty text yields no chunk and no exception: it is
\* skipped, no chunk with empty content is made for it, and the documents
\* after it are still chunked.
C34_EmptyDocumentSkipped == []C34_Inv /\ [][C34_Step]_vars

\* The first of two files had no text: the run went on to embed the chunks
\* of the second.
C34_Witness ==
  /\ ppc = "embed"
  /\ files = <<1, 2>>
  /\ DocumentFiles = {2}
  /\ all_chunks # <<>>
  /\ \A k \in 1..Len(all_chunks) : FileOfChunk(all_chunks[k]) = 2

(***************************************************************************)
(* The store collections of different targets.                             *)
(***************************************************************************)
\* The collection whose run is in progress or was finished last.
RunCollection ==
  collections_to_process[IF ppc = "idle" THEN ci - 1 ELSE ci]

C35_Inv ==
  \* every store call of a run names the store collection of the run's own
  \* configuration
  RunBegun
    => /\ qcoll = RunCollection.qdrant_collection
       /\ \A k \in 1..Len(store_calls) :
            store_calls[k].coll = RunCollection.qdrant_collection

C35_Step ==
  \* the points of a store collection change only in the load of a run
  \* whose configuration names it
  \A n \in StoreNames :
    store'[n] # store[n]
      => /\ ppc = "load"
         /\ n = collections_to_process[ci].qdrant_collection

\* C35: the run of one configured collection sends its delete and upsert
\* calls, and every other store call, to that collection's own store
\* collection only; the points of the store collection of another configured
\* collection are neither deleted nor written by it.
C35_TargetIndependence == []C35_Inv /\ [][C35_Step]_vars

\* Two collections were processed and each run deleted and wrote points in
\* its own store collection.
C35_Witness ==
  /\ mpc = "loop"
  /\ ppc = "idle"
  /\ ci = 3
  /\ results[1].success
  /\ results[2].success
  /\ NewPoints("kb1") # {}
  /\ NewPoints("kb2") # {}
  /\ qcoll = "kb2"
  /\ total_deleted > 0

(***************************************************************************)
(* Runs that end before the load.                                          *)
(***************************************************************************)
\* The steps of process_collection before the load.
PreLoad == {"walk", "download", "chunk", "embed"}

C36_Inv ==
  \* before the load no delete and no upsert call has been made
  /\ ppc \in PreLoad
       => /\ MutatingCalls = <<>>
          /\ qpc = "idle"
  \* a run that ended without entering the load made none either
  /\ (RunEnded /\ qpc = "idle")
       => /\ ~LastResult.success
          /\ MutatingCalls = <<>>
  \* a run without files or without chunks does not enter the load
  /\ (RunBegun /\ (files = <<>> \/ all_chunks = <<>>)) => MutatingCalls = <<>>
  /\ (RunEnded /\ LastResult.error \in {"No files found", "No chunks created"})
       => qpc = "idle"

C36_Step ==
  \* no step before the load, and none that ends a run before the load,
  \* changes the points of the store
  /\ ppc \in PreLoad => store' = store
  /\ (ppc = "idle" /\ mpc = "loop") => store' = store

\* C36: a run that ends before the load (no files found, no chunks created,
\* or an exception during walk, download, chunking or embedding) has made no
\* delete and no upsert call, and the points of its store collection are what
\* they were before the run.
C36_NoMutationBeforeLoad == []C36_Inv /\ [][C36_Step]_vars

\* A run on a populated collection ended with 'No chunks created': its
\* points are all there.
C36_Witness ==
  /\ RunEnded
  /\ LastResult.error = "No chunks created"
  /\ documents # <<>>
  /\ PointsCount(store, qcoll) = MaxOldPoints
  /\ MutatingCalls = <<>>

(***************************************************************************)
(* The embedding and the load of a run.                                    *)
(***************************************************************************)
\* clear_collection has been entered in the run.
ClearBegun == RunBegun /\ qpc # "idle"

C37_Inv ==
  \* when clear_collection is entered add_embeddings_to_chunks has returned:
  \* every batch is finished and no attempt is in progress
  ClearBegun
    => /\ epc = "returned"
       /\ bi >= Len(texts)
       /\ attempt = 0
       /\ Len(batch_log) = NumBatches
       /\ Len(enhanced) = Len(all_chunks)

C37_Step ==
  \* from the start of the clear on, no call of the embedding service, no
  \* attempt and no wait is made in the run
  /\ (ClearBegun /\ ppc = "load")
       => /\ remote_calls' = remote_calls
          /\ sleeps' = sleeps
          /\ batch_log' = batch_log
          /\ plan' = plan
          /\ embeddings' = embeddings
  \* a delete or upsert call is made in the load only
  /\ Len(MutatingCalls') > Len(MutatingCalls)
       => (ppc = "load" /\ epc = "returned")

\* C37: every embedding call of a run, retries and waits included, is over
\* before the first delete call: nothing of the embedding happens between the
\* start of the clear and the end of the upsert.
C37_EmbeddingBeforeLoad == []C37_Inv /\ [][C37_Step]_vars

\* A run of two batches, with waits before retries, went on to delete and
\* write points.
C37_Witness ==
  /\ qpc = "upsert_returned"
  /\ Len(batch_log) = 2
  /\ Len(sleeps) >= 2
  /\ total_deleted > 0
  /\ total_upserted > 0

(***************************************************************************)
(* Files gathered more than once.                                          *)
(***************************************************************************)
\* C38: in the run of a collection every file is gathered at most once, also
\* when one configured folder lies below another.
C38_EachFileGatheredOnce ==
  /\ \A k \in 1..Len(gathered) : Occurrences(gathered, gathered[k]) = 1
  /\ \A k \in 1..Len(all_processed_files) :
       Occurrences(all_processed_files, all_processed_files[k]) = 1

(***************************************************************************)
(* The scan-delete loop of the clear ends.                                 *)
(***************************************************************************)
\* The ids handed to the delete calls so far, call by call.
SubmittedIds ==
  [k \in 1..Len(store_calls) |->
     IF store_calls[k].op = "delete" THEN SeqToSet(store_calls[k].arg) ELSE {}]

C39_Inv ==
  \* no id is in two delete calls, and none is twice in one call
  /\ \A i \in 1..Len(store_calls) : \A j \in 1..Len(store_calls) :
       i # j => SubmittedIds[i] \cap SubmittedIds[j] = {}
  /\ \A k \in PositionsOf({"delete"}) :
       Cardinality(SubmittedIds[k]) = Len(store_calls[k].arg)

C39_Step ==
  \* an iteration after which the loop goes on has deleted at least one point
  \* and has moved the cursor forward
  (qpc = "scroll" /\ qpc' = "scroll")
    => /\ total_deleted' > total_deleted
       /\ Cardinality(store'[qcoll].points) < Cardinality(store[qcoll].points)
       /\ offset' # None
       /\ offset = None \/ offset' > offset

\* C39: the scan-delete loop of the clear ends for every finite collection:
\* an iteration deletes at least one point and advances the cursor, or ends
\* the loop, and no point id is submitted for deletion twice.
C39_ScanDeleteTerminates ==
  /\ []C39_Inv
  /\ [][C39_Step]_vars
  /\ (qpc = "scroll") ~> (qpc # "scroll")

\* A clear of three points went through two pages, every call answered, and
\* ended on the missing next cursor.
C39_Witness ==
  /\ qpc = "clear_returned"
  /\ Cardinality(PositionsOf({"delete"})) = 2
  /\ \A k \in 1..Len(clear_outcomes) : clear_outcomes[k]
  /\ total_deleted = 3
  /\ store[qcoll].points = {}

(***************************************************************************)
(* The accumulator of generate_embeddings_batch grows by whole batches.    *)
(***************************************************************************)
C40_Inv ==
  \* with k batches finished the accumulator holds min(k * batch_size,
  \* len(texts)) vectors, between the attempts of a batch as well
  epc \in {"batch", "returned"}
    => Len(embeddings) = Min(Len(batch_log) * EmbedBatchSize, Len(texts))

C40_Step ==
  epc = "batch" =>
    \* an attempt that does not finish its batch appends nothing
    /\ batch_log' = batch_log => embeddings' = embeddings
    \* an attempt that finishes its batch, by success or by the zero fill,
    \* appends one vector per text of the batch behind what was there
    /\ batch_log' # batch_log =>
         /\ Len(batch_log') = Len(batch_log) + 1
         /\ Len(embeddings') = Len(embeddings) + Len(CurrentBatch)
         /\ SubSeq(embeddings', 1, Len(embeddings)) = embeddings

\* C40: the accumulator of generate_embeddings_batch grows only by whole
\* batches: after k finished batches it holds min(k * batch_size, len(texts))
\* vectors, and a failed attempt appends nothing before the retry.
C40_AccumulatorWholeBatches == []C40_Inv /\ [][C40_Step]_vars

\* Between two attempts of the second batch of three texts, the first batch
\* having had failed attempts too: the accumulator holds the first batch only.
C40_Witness ==
  /\ epc = "batch"
  /\ Len(texts) = 3
  /\ Len(batch_log) = 1
  /\ batch_log[1].attempts > 1
  /\ attempt > 0
  /\ Len(embeddings) = EmbedBatchSize

====
